---- MODULE Spec2Model ----
(***************************************************************************)
(* Model of the FTP email-append pipeline                                  *)
(* (src/attachments/ftp_email_processor.py): the batch workflow            *)
(* process_workflow, the per-file pipeline process_single_file, the        *)
(* completion poller wait_for_processing_sftp and the directory helper     *)
(* ensure_ftp_directory.                                                   *)
(*                                                                         *)
(* File names are sequences of tokens.  A token stands for the characters  *)
(* it spells ("email", ".", "csv", "_converted", "-results-", ...).  The   *)
(* tokens are chosen so that none occurs inside a concatenation of the     *)
(* others except as a whole token, hence substring tests on the token      *)
(* sequences agree with Python's tests on the spelled strings.             *)
(***************************************************************************)
EXTENDS Integers, Sequences, FiniteSets, TLC

(***************************************************************************)
(* Bounds of the model.                                                    *)
(***************************************************************************)
MaxFiles == 2
MaxEntries == 1
MaxWaitMinutes == 2

(***************************************************************************)
(* Program constants.                                                      *)
(***************************************************************************)
RecencyHours == 2
SecondsPerHour == 3600
SecondsPerMinute == 60

None == <<>>
NoError == "None"
\* str(e) of a caught exception
ErrorText == "error"

(***************************************************************************)
(* String helpers (Python str / pathlib semantics on token sequences).     *)
(***************************************************************************)
Contains(s, sub) ==
    \E i \in 0..(Len(s) - Len(sub)) : SubSeq(s, i + 1, i + Len(sub)) = sub

EndsWith(s, suf) ==
    /\ Len(suf) <= Len(s)
    /\ SubSeq(s, Len(s) - Len(suf) + 1, Len(s)) = suf

RECURSIVE Replace(_, _)
\* str.replace(old, ''): every non-overlapping occurrence, left to right.
Replace(s, old) ==
    IF Len(s) < Len(old) THEN s
    ELSE IF SubSeq(s, 1, Len(old)) = old
         THEN Replace(SubSeq(s, Len(old) + 1, Len(s)), old)
         ELSE <<Head(s)>> \o Replace(Tail(s), old)

\* str.lower()
LowerTok(t) == IF t = "Email" THEN "email" ELSE t
Lower(s) == [i \in 1..Len(s) |-> LowerTok(s[i])]

\* Path(name).stem: the name without its last suffix; a leading or a
\* trailing dot starts no suffix.
LastDot(s) ==
    IF \E i \in 1..Len(s) : s[i] = "."
    THEN CHOOSE i \in 1..Len(s) :
            /\ s[i] = "."
            /\ \A j \in (i + 1)..Len(s) : s[j] # "."
    ELSE 0

Stem(s) ==
    IF LastDot(s) > 1 /\ LastDot(s) < Len(s)
    THEN SubSeq(s, 1, LastDot(s) - 1)
    ELSE s

DotCsv == <<".", "csv">>
ResultsTag == <<"-results-">>

\* f"{Path(filename).stem}_converted.csv"
UploadName(filename) == Stem(filename) \o <<"_converted">> \o DotCsv

\* base_name = upload_filename.replace('.csv', '');
\* base_name_normalized = base_name.replace('.', '')
NormalizedBase(upload_filename) ==
    Replace(Replace(upload_filename, DotCsv), <<".">>)


(***************************************************************************)
(* analyze_email_changes.  A file read by pd.read_csv is a DataFrame: its  *)
(* column headers and, per column, the cells of its rows.  A cell is NaN   *)
(* (an empty field) or a value; values are positive integers standing for  *)
(* strings in their sort order.                                            *)
(***************************************************************************)
NaN == 0
DisplayCap == 100

\* len(df)
RowCount(df) == IF df.columns = <<>> THEN 0 ELSE Len(df.cells[1])

\* col in df.columns
HasColumn(df, col) == \E c \in 1..Len(df.columns) : df.columns[c] = col

\* df[col]
Column(df, col) ==
    df.cells[CHOOSE c \in 1..Len(df.columns) : df.columns[c] = col]

\* the for loop over df_appended.columns: the first header whose lower()
\* contains 'email', or None
EmailColumn(df) ==
    LET IsEmail(c) == Contains(Lower(df.columns[c]), <<"email">>)
    IN  IF \E c \in 1..Len(df.columns) : IsEmail(c)
        THEN df.columns[CHOOSE c \in 1..Len(df.columns) :
                           /\ IsEmail(c)
                           /\ \A d \in 1..(c - 1) : ~IsEmail(d)]
        ELSE None

\* df[df[col].notna()][col]: the non-empty cells of a column, in row order
NotNa(column) == LET Keep(v) == v # NaN IN SelectSeq(column, Keep)

\* set(...)
ToSet(seq) == {seq[i] : i \in 1..Len(seq)}

\* sorted(list(s))
Sorted(s) ==
    IF s = {} THEN <<>>
    ELSE LET top == CHOOSE x \in s : \A y \in s : y <= x
             In(v) == v \in s
         IN  SelectSeq([v \in 1..top |-> v], In)

\* seq[:n]
Take(seq, n) == SubSeq(seq, 1, IF Len(seq) < n THEN Len(seq) ELSE n)

\* the number of cells of a column holding v
Occurrences(column, v) == Cardinality({i \in 1..Len(column) : column[i] = v})

\* the distinct non-empty values of a column in the order of their first
\* (forward) or last (not forward) appearance
SeenOrder(column, forward) ==
    LET n == Len(column)
        At(i) == IF forward THEN i ELSE n + 1 - i
        IsFirst(i) ==
            /\ column[At(i)] # NaN
            /\ \A j \in 1..(i - 1) : column[At(j)] # column[At(i)]
        firsts == SelectSeq([i \in 1..n |-> i], IsFirst)
    IN  [k \in 1..Len(firsts) |-> column[At(firsts[k])]]

RECURSIVE ByCount(_, _, _)
\* the values of seen in descending order of count, over the counts given
ByCount(seen, count, counts) ==
    IF counts = {} THEN <<>>
    ELSE LET top == CHOOSE c \in counts : \A d \in counts : d <= c
             Has(v) == count[v] = top
         IN  SelectSeq(seen, Has) \o ByCount(seen, count, counts \ {top})

\* variant: duplicates are the values counted at least once
DuplicatesFromOne(column, forward) ==
    LET seen == SeenOrder(column, forward)
        count == [v \in ToSet(seen) |-> Occurrences(column, v)]
    IN  ByCount(seen, count, {count[v] : v \in ToSet(seen)})

\* email_counts = df[col].value_counts(): NaN dropped, descending count,
\* equal counts in an order pandas leaves open (here: order of first or of
\* last appearance); email_counts[email_counts > 1].index.tolist(); the
\* pd.notna filter
Duplicates(column, forward) ==
    LET seen == SeenOrder(column, forward)
        count == [v \in ToSet(seen) |-> Occurrences(column, v)]
        Repeated(v) == count[v] > 1
        dups == SelectSeq(seen, Repeated)
    IN  ByCount(dups, count, {count[v] : v \in ToSet(dups)})

\* the orders value_counts can give the email column of a file: one when
\* no two repeated values have the same count or there is no such column
TieOrders(df) ==
    LET email_col == EmailColumn(df)
    IN  IF email_col = None THEN {TRUE}
        ELSE LET column == Column(df, email_col)
                 seen == SeenOrder(column, TRUE)
                 Repeated(v) == Occurrences(column, v) > 1
                 dups == SelectSeq(seen, Repeated)
                 counts == {Occurrences(column, v) : v \in ToSet(dups)}
             IN  IF Cardinality(counts) < Len(dups) THEN BOOLEAN ELSE {TRUE}

\* the email statistics set by __init__
NewAnalyzer ==
    [outcome |-> "none", emails_before |-> 0, emails_after |-> 0,
     new_emails |-> <<>>, duplicate_emails |-> <<>>,
     original_file |-> None, appended_file |-> None,
     results |-> None]

\* variant: the display cap also caps the two counts
AnalysisResultsCapsCounts(a, df_original, df_appended) ==
    [total_records_before |-> RowCount(df_original),
     total_records_after |-> RowCount(df_appended),
     emails_before |-> a.emails_before,
     emails_after |-> a.emails_after,
     new_emails_count |-> Len(Take(a.new_emails, DisplayCap)),
     duplicate_count |-> Len(Take(a.duplicate_emails, DisplayCap)),
     new_emails |-> Take(a.new_emails, DisplayCap),
     duplicate_emails |-> Take(a.duplicate_emails, DisplayCap)]

\* the results dictionary
AnalysisResults(a, df_original, df_appended) ==
    [total_records_before |-> RowCount(df_original),
     total_records_after |-> RowCount(df_appended),
     emails_before |-> a.emails_before,
     emails_after |-> a.emails_after,
     new_emails_count |-> Len(a.new_emails),
     duplicate_count |-> Len(a.duplicate_emails),
     new_emails |-> Take(a.new_emails, DisplayCap),
     duplicate_emails |-> Take(a.duplicate_emails, DisplayCap)]

\* the branch email_col is None: the two counts are set, the lists are not
NoEmailColumn(a) == [a EXCEPT !.emails_before = 0, !.emails_after = 0]

\* variant: the original's emails are not subtracted
NewEmailsKeepsOld(df_original, df_appended, email_col) ==
    Sorted(ToSet(NotNa(Column(df_appended, email_col))))

\* new_emails_set = appended_emails - original_emails; sorted(list(...))
NewEmails(df_original, df_appended, email_col) ==
    LET original_emails ==
            IF HasColumn(df_original, email_col)
            THEN ToSet(NotNa(Column(df_original, email_col)))
            ELSE {}
        appended_emails == ToSet(NotNa(Column(df_appended, email_col)))
    IN  Sorted(appended_emails \ original_emails)

\* variant: every row of the file is counted
EmailCountAllRows(df, email_col) == RowCount(df)

\* len(df[df[email_col].notna()]) if email_col in df.columns else 0
EmailCount(df, email_col) ==
    IF HasColumn(df, email_col) THEN Len(NotNa(Column(df, email_col))) ELSE 0

\* the processor's statistics after the branch on email_col
Counted(a, df_original, df_appended, forward) ==
    LET email_col == EmailColumn(df_appended)
    IN  IF email_col = None
        THEN NoEmailColumn(a)
        ELSE [a EXCEPT
                 !.emails_before = EmailCount(df_original, email_col),
                 !.emails_after = EmailCount(df_appended, email_col),
                 !.new_emails = NewEmails(df_original, df_appended, email_col),
                 !.duplicate_emails =
                     Duplicates(Column(df_appended, email_col), forward)]

\* analyze_email_changes returning: the statistics and the results
Analyzed(a, df_original, df_appended, forward) ==
    LET b == Counted(a, df_original, df_appended, forward)
    IN  [b EXCEPT !.outcome = "returned",
                  !.original_file = df_original,
                  !.appended_file = df_appended,
                  !.results = AnalysisResults(b, df_original, df_appended)]

\* analyze_email_changes raising: pd.read_csv failed, nothing was set and
\* nothing is returned
AnalyzeRaised(a) == [a EXCEPT !.outcome = "raised"]

\* a DataFrame of the given headers and columns
Frame(columns, cells) == [columns |-> columns, cells |-> cells]

\* a column of n cells holding the value 1
Ones(n) == [i \in 1..n |-> 1]

IdHeader == <<"id">>
EmailHeader == <<"Email">>

\* the contents the workflow's files have: a converted file without an
\* email column and a result file with one appended email
WorkflowFiles ==
    [originals |-> {Frame(<<IdHeader>>, <<Ones(1)>>)},
     appended |-> {Frame(<<IdHeader, EmailHeader>>, <<Ones(1), Ones(1)>>)}]

\* the sequences over S of length at most n
Seqs(S, n) == UNION {[1..k -> S] : k \in 0..n}

(***************************************************************************)
(* Files to analyze.                                                       *)
(***************************************************************************)
MaxRows == 2

\* email columns of at most MaxRows rows over two emails and the empty cell
SmallColumns == Seqs({NaN, 1, 2}, MaxRows)

\* columns whose values repeat: unequal counts with the more frequent value
\* the greater one, equal counts, and repeated empty cells
RepeatingColumns ==
    {<<2, 2, 2, 1, 1>>, <<2, 1, 2, 1>>, <<NaN, 1, NaN, 1, 2>>}

\* a column holding each of n emails twice, n down to 1 and again
Twice(n) == [i \in 1..(2 * n) |-> n - ((i - 1) % n)]

\* result files: without an email column, or with one
AppendedFiles ==
    {Frame(<<IdHeader>>, <<Ones(MaxRows)>>)}
        \cup {Frame(<<IdHeader, EmailHeader>>, <<Ones(Len(v)), v>>) :
                 v \in SmallColumns \cup RepeatingColumns}

\* converted files: without an email column, with one under a header of
\* another case, or with the result file's email column, that column
\* without rows, empty, holding an email, or holding it twice
OriginalFiles ==
    {Frame(<<IdHeader>>, <<Ones(1)>>),
     Frame(<<IdHeader, <<"email">> >>, <<Ones(1), Ones(1)>>)}
        \cup {Frame(<<IdHeader, EmailHeader>>, <<Ones(Len(v)), v>>) :
                 v \in {<<>>, <<NaN>>, <<1>>, <<1, 1>>}}

\* result files: one more email than the display cap, each twice; three
\* emails of three different counts; repeating and single-row columns; a
\* file without an email column
CapAppendedFiles ==
    {Frame(<<IdHeader, EmailHeader>>, <<Ones(Len(v)), v>>) :
        v \in {Twice(DisplayCap + 1), <<3, 1, 3, 2, 3, 2>>, <<1, 2, 3>>,
               <<1, 2>>, <<1, 1>>, <<2, NaN>>}
                 \cup RepeatingColumns \cup Seqs({NaN, 1, 2}, 1)}
        \cup {Frame(<<IdHeader>>, <<Ones(1)>>)}

\* converted files: without the email column, or holding two of the many
\* emails
CapOriginalFiles ==
    {Frame(<<IdHeader>>, <<Ones(1)>>),
     Frame(<<IdHeader, EmailHeader>>, <<Ones(2), <<1, DisplayCap>> >>)}

\* the local files by the name of their set
LocalFiles(name) ==
    CASE name = "workflow" -> WorkflowFiles
      [] name = "analysis" ->
            [originals |-> OriginalFiles, appended |-> AppendedFiles]
      [] name = "bulk" ->
            [originals |-> CapOriginalFiles, appended |-> CapAppendedFiles]

(***************************************************************************)
(* State.                                                                  *)
(***************************************************************************)
VARIABLES
    config,            \* run configuration, read once
    now,               \* wall clock, seconds (time.time())
    srcDir,            \* source endpoint: names in the source directory
    prevDir,           \* source endpoint: names in the archival directory
    downloads,         \* destination endpoint: entries of downloads/
    pending,           \* upload the destination service has yet to process
    nConn,             \* number of source connections opened so far
    conn,              \* per source connection: status, quit invoked
    dest,              \* destination connection: ssh / sftp opened, closed
    pc,                \* position in process_workflow
    ftp1,              \* process_workflow's local ftp1 (0 = None)
    files_to_process,  \* process_workflow's local list
    idx,               \* loop index of process_workflow (1-based)
    workflow_results,  \* the BatchRun being built
    sf,                \* frame of process_single_file
    poll,              \* frame of wait_for_processing_sftp
    ran,               \* steps started for the current file, in order
    nOk,               \* steps of the current file that completed
    lastOps,           \* endpoint operations issued by the latest action
    nList,             \* listing attempts of the current poll
    nSleep,            \* suspensions of the current poll
    nErr,              \* listing attempts of the current poll that raised
    lastListing,       \* what the latest listing attempt saw
    notes,             \* notifications emitted, in order
    delivered,         \* what became of the latest notification's sends
    session,           \* the source connection ensure_ftp_directory works on
    summary,           \* what the latest terminal summary said
    upload,            \* upload_result: the server and what the run printed
    mover,             \* move_file_back: the two directories and the run
    an,                \* the processor's email statistics and latest analysis
    disk               \* which local files there are to analyze

vars == <<config, now, srcDir, prevDir, downloads, pending, nConn, conn, dest,
          pc, ftp1, files_to_process, idx, workflow_results, sf, poll, ran,
          nOk, lastOps, nList, nSleep, nErr, lastListing, notes, delivered,
          session, summary, upload, mover, an, disk>>

envVars == <<srcDir, prevDir, nConn, conn, dest>>
wfVars == <<pc, ftp1, files_to_process, idx, workflow_results, sf, ran, nOk,
            notes>>
pollGhost == <<nList, nSleep, nErr, lastListing>>

(***************************************************************************)
(* The completion poller, wait_for_processing_sftp.                        *)
(***************************************************************************)
\* what a listing attempt saw: the entries, or that listdir_attr raised
NoListing == [raised |-> FALSE, files |-> <<>>]
ListingError == [raised |-> TRUE, files |-> <<>>]
Listed(files) == [raised |-> FALSE, files |-> files]

\* (time.time() - st_mtime) / 3600: the age test file_age_hours < 2 on
\* whole seconds.
AgeOk(t, mtime) == (t - mtime) < RecencyHours * SecondsPerHour

NameOk(filename, base) ==
    /\ Contains(filename, base)
    /\ Contains(filename, ResultsTag)
    /\ EndsWith(filename, DotCsv)

\* the condition under which the for loop returns at an entry
Matches(e, base, t) == NameOk(e.filename, base) /\ AgeOk(t, e.st_mtime)

\* variant: the scan keeps the last matching entry instead of returning
\* at the first
FirstMatchLast(files, base, t) ==
    IF \E i \in 1..Len(files) : Matches(files[i], base, t)
    THEN CHOOSE i \in 1..Len(files) :
            /\ Matches(files[i], base, t)
            /\ \A j \in (i + 1)..Len(files) : ~Matches(files[j], base, t)
    ELSE 0

\* index of the entry the for loop returns at, 0 when it falls through
FirstMatch(files, base, t) ==
    IF \E i \in 1..Len(files) : Matches(files[i], base, t)
    THEN CHOOSE i \in 1..Len(files) :
            /\ Matches(files[i], base, t)
            /\ \A j \in 1..(i - 1) : ~Matches(files[j], base, t)
    ELSE 0

\* variant: the attempt budget rounded up instead of down
MaxAttemptsRoundedUp(max_wait_minutes, check_interval) ==
    (max_wait_minutes * SecondsPerMinute + check_interval - 1)
        \div check_interval

MaxAttempts(max_wait_minutes, check_interval) ==
    (max_wait_minutes * SecondsPerMinute) \div check_interval

IdlePoll ==
    [pc |-> "idle", base |-> None, max_attempts |-> 0, attempts |-> 0,
     ret |-> None]

\* variant: the poll has no attempt budget and no loop, it blocks until
\* the result is there
PollStartBlocking(upload_filename) ==
    [pc |-> "blocked",
     base |-> NormalizedBase(upload_filename),
     max_attempts |-> 0,
     attempts |-> 0,
     ret |-> None]

\* entry of wait_for_processing_sftp, up to the while loop
PollStart(upload_filename) ==
    [pc |-> "loop",
     base |-> NormalizedBase(upload_filename),
     max_attempts |-> MaxAttempts(config.max_wait_minutes,
                                  config.check_interval),
     attempts |-> 0,
     ret |-> None]

\* variant: the last attempt of the budget is not followed by a sleep
AttemptMissedLastUnslept(p) ==
    [p EXCEPT !.attempts = @ + 1,
              !.pc = IF p.attempts + 1 < p.max_attempts
                     THEN "sleep" ELSE "loop"]

\* a loop iteration that found nothing: count it, go to sleep
AttemptMissed(p) == [p EXCEPT !.attempts = @ + 1, !.pc = "sleep"]

\* variant: a listing error ends the poll instead of costing one attempt
AttemptErroredAborts(p) == [p EXCEPT !.pc = "timeout"]

\* a loop iteration whose listing raised: the except clause counts it and
\* goes to sleep
AttemptErrored(p) == [p EXCEPT !.attempts = @ + 1, !.pc = "sleep"]

\* variant: a match is noticed but the loop goes on to its sleep
AttemptFoundKeepsPolling(p, files, i) ==
    [p EXCEPT !.attempts = @ + 1, !.pc = "sleep"]

\* a loop iteration that returned at entry i of the listing
AttemptFound(p, files, i) ==
    [p EXCEPT !.pc = "returned", !.ret = <<"downloads/">> \o files[i].filename]

\* one iteration of the while loop up to its sleep: sftp.listdir_attr,
\* the scan, and the attempt count
PollAttempt ==
    /\ poll.pc = "loop"
    /\ poll.attempts < poll.max_attempts
    /\ \E ok \in BOOLEAN :
        /\ nList' = nList + 1
        /\ lastOps' = <<[op |-> "listdir", h |-> 0]>>
        /\ IF ~ok
           THEN /\ poll' = AttemptErrored(poll)
                /\ lastListing' = ListingError
                /\ nErr' = nErr + 1
           ELSE /\ lastListing' = Listed(downloads)
                /\ nErr' = nErr
                /\ LET i == FirstMatch(downloads, poll.base, now)
                   IN  poll' = IF i = 0 THEN AttemptMissed(poll)
                                        ELSE AttemptFound(poll, downloads, i)
    /\ UNCHANGED <<config, disk, session, summary, upload, mover,
                   an, delivered, now, downloads, pending,
                   envVars, wfVars, nSleep>>

\* variant: every sleep lasts a minute whatever the interval
ClockAfterMinuteSleep(t, cfg) == t + SecondsPerMinute

\* the clock after time.sleep(check_interval)
ClockAfterSleep(t, cfg) == t + cfg.check_interval

\* time.sleep(check_interval) at the end of an iteration
PollSleep ==
    /\ poll.pc = "sleep"
    /\ poll' = [poll EXCEPT !.pc = "loop"]
    /\ now' = ClockAfterSleep(now, config)
    /\ nSleep' = nSleep + 1
    /\ lastOps' = <<>>
    /\ UNCHANGED <<config, disk, session, summary, upload, mover,
                   an, delivered, downloads, pending, envVars,
                   wfVars, nList, nErr,
                   lastListing>>

\* the while condition fails: raise TimeoutError
PollTimeout ==
    /\ poll.pc = "loop"
    /\ poll.attempts >= poll.max_attempts
    /\ poll' = [poll EXCEPT !.pc = "timeout"]
    /\ lastOps' = <<>>
    /\ UNCHANGED <<config, disk, session, summary, upload, mover,
                   an, delivered, now, downloads, pending,
                   envVars, wfVars,
                   pollGhost>>

(***************************************************************************)
(* The destination service: it writes the result of a submitted upload     *)
(* into downloads/ as <normalized base>-results-<id>.csv.                  *)
(***************************************************************************)
\* "TowerData puts processed files in downloads/ with pattern
\* filename-results-XXXXX.csv" and "removes dots from filenames"
ResultName(upload_filename) ==
    Replace(Stem(upload_filename), <<".">>) \o ResultsTag \o <<"1">>
        \o DotCsv

ServiceWrites ==
    /\ poll.pc \in {"loop", "sleep"}
    /\ pending # None
    /\ downloads' = Append(downloads,
                           [filename |-> ResultName(pending),
                            st_mtime |-> now])
    /\ pending' = None
    /\ lastOps' = <<>>
    /\ UNCHANGED <<config, disk, session, summary, upload, mover,
                   an, delivered, now, envVars, wfVars, poll,
                   pollGhost>>


(***************************************************************************)
(* Source connections (ftplib.FTP_TLS objects).  conn[h] is the h-th       *)
(* connection opened by connect_ftp.                                       *)
(***************************************************************************)
NewConn == [status |-> "live", quit |-> FALSE]

\* an operation can succeed only on a connection that is still up
SrcOk(h) == h # 0 /\ conn[h].status = "live"

\* ftp.quit(): sends QUIT and, when that did not raise, closes the socket
QuitOn(c, h) ==
    [c EXCEPT ![h].quit = TRUE,
              ![h].status = IF @ = "live" THEN "closed" ELSE @]

\* the connection the batch holds drops (idle timeout, network) while the
\* batch runs
GoStale ==
    /\ pc \in {"list", "connect_sftp", "loop", "in_file"}
    /\ SrcOk(ftp1)
    /\ conn' = [conn EXCEPT ![ftp1].status = "stale"]
    /\ lastOps' = <<>>
    /\ UNCHANGED <<config, disk, session, summary, upload, mover,
                   an, delivered, now, srcDir, prevDir,
                   downloads, pending, nConn,
                   dest, wfVars, poll, pollGhost>>

(***************************************************************************)
(* ensure_ftp_directory.  Its outcome is decided by which of its calls     *)
(* raise: cwd(directory), the cwd back, mkd(directory).                    *)
(***************************************************************************)
AllEnsureOutcomes ==
    {"exists", "back_failed_mkd_ok", "back_failed_mkd_failed",
     "absent_mkd_ok", "absent_mkd_failed"}

\* on a connection that is down every call raises
EnsureOutcomes(h) ==
    IF SrcOk(h) THEN AllEnsureOutcomes ELSE {"absent_mkd_failed"}

EnsureOps(h, o) ==
    LET cwd == [op |-> "cwd", h |-> h]
        mkd == [op |-> "mkd", h |-> h]
    IN  CASE o = "exists" -> <<cwd, cwd>>
          [] o \in {"back_failed_mkd_ok", "back_failed_mkd_failed"} ->
                <<cwd, cwd, mkd>>
          [] OTHER -> <<cwd, mkd>>

(***************************************************************************)
(* ensure_ftp_directory command by command, on a connection whose working  *)
(* directory is tracked.  Paths are sequences of their parts, every "/"    *)
(* a part of its own.                                                      *)
(***************************************************************************)
\* str.rstrip('/'): every trailing slash goes
RECURSIVE RstripSlash(_)
RstripSlash(path) ==
    IF path # <<>> /\ path[Len(path)] = "/"
    THEN RstripSlash(SubSeq(path, 1, Len(path) - 1))
    ELSE path

\* config['source_filename'], the directory the batch reads from
SourceFilename == <<"/", "src", "/">>

\* previous_dir: config.get('fpn_previous_dir', f"{source_dir}previous/")
\* with its trailing slash stripped
PreviousDir == RstripSlash(SourceFilename \o <<"previous", "/">>)

\* fpn_dest_dir: config.get('fpn_destination_dir', ...) with its trailing
\* slash stripped
FpnDestDir == RstripSlash(<<"/", "to_FPN", "/">>)

\* the directory a connection is in right after the login
LoginDir == <<"/">>

\* the directory the server reports after a CWD that succeeded: it names
\* directories without a trailing slash
Entered(path) ==
    IF RstripSlash(path) = <<>> THEN <<"/">> ELSE RstripSlash(path)

\* no call yet, on a connection just opened
NoSession ==
    [up |-> TRUE, cwd |-> LoginDir,
     dirs |-> {LoginDir, Entered(SourceFilename)},
     step |-> "none", file |-> 1, reconnected |-> FALSE,
     held_cwd |-> LoginDir, moved |-> FALSE,
     before |-> LoginDir, directory |-> <<>>, cmds |-> <<>>,
     warned |-> FALSE, raised |-> FALSE]

\* what the server may answer to the three commands of a call: a command
\* can succeed only on a connection that is up, cwd only into a directory
\* there is, mkd only for a directory there is not
EnsureAnswers(s, directory) ==
    {a \in [in : BOOLEAN, back : BOOLEAN, mk : BOOLEAN] :
        /\ a.in => (s.up /\ Entered(directory) \in s.dirs)
        /\ a.back => (a.in /\ Entered(SourceFilename) \in s.dirs)
        /\ a.mk => (s.up /\ Entered(directory) \notin s.dirs
                           /\ ~(a.in /\ a.back))}

\* ensure_ftp_directory(ftp, directory): cwd(directory), then cwd back to
\* config['source_filename']; when either raised, mkd(directory), whose
\* own error ends in a warning
EnsureFtpDirectory(s, directory0, a) ==
    LET directory == RstripSlash(directory0)
        home == RstripSlash(SourceFilename)
        excepted == ~a.in \/ ~a.back
        cwdIn == <<[cmd |-> "cwd", arg |-> directory, ok |-> a.in]>>
        cwdBack == IF a.in
                   THEN <<[cmd |-> "cwd", arg |-> home, ok |-> a.back]>>
                   ELSE <<>>
        mkd == IF excepted
               THEN <<[cmd |-> "mkd", arg |-> directory, ok |-> a.mk]>>
               ELSE <<>>
    IN  [s EXCEPT !.before = s.cwd,
                  !.directory = directory,
                  !.cwd = IF ~a.in THEN s.cwd
                          ELSE IF a.back THEN Entered(home)
                          ELSE Entered(directory),
                  !.dirs = IF excepted /\ a.mk
                           THEN @ \cup {Entered(directory)} ELSE @,
                  !.cmds = cwdIn \o cwdBack \o mkd,
                  !.warned = excepted /\ ~a.mk,
                  !.raised = FALSE]

(***************************************************************************)
(* send_slack_notification and send_email_notification.  What becomes of   *)
(* a send is decided by the configuration and, when the channel is         *)
(* configured, by the webhook or the mail server.                          *)
(***************************************************************************)
\* disabled: the early return; unconfigured: no webhook URL; sent: status
\* 200; rejected: another status; error: requests.post raised
SlackOutcomes(cfg) ==
    IF ~cfg.send_slack_notification THEN {"disabled"}
    ELSE IF cfg.slack_webhook_url = None THEN {"unconfigured"}
    ELSE {"sent", "rejected", "error"}

\* disabled: the early return; incomplete: a setting is missing; sent;
\* error: smtplib raised
EmailOutcomes(cfg) ==
    IF ~cfg.send_email_notification THEN {"disabled"}
    ELSE IF cfg.smtp_server = None THEN {"incomplete"}
    ELSE {"sent", "error"}

\* variant: an error of requests.post leaves the function
SlackRaisesOnError(outcome) == outcome = "error"

\* send_slack_notification: every outcome ends in a log line or a return,
\* the except clause catches what requests.post raises
SlackRaises(outcome) == FALSE

\* variant: an error of smtplib leaves the function
EmailRaisesOnError(outcome) == outcome = "error"

\* send_email_notification: every outcome ends in a log line or a return,
\* the except clause catches what smtplib raises
EmailRaises(outcome) == FALSE

NoDelivery == [slack |-> "none", email |-> "none", raised |-> FALSE]

\* a notification: the chat send, then the mail send unless the chat send
\* raised; raised: an exception reaches the caller
Notified(slack, email) ==
    [slack |-> slack,
     email |-> IF SlackRaises(slack) THEN "none" ELSE email,
     raised |-> SlackRaises(slack) \/ EmailRaises(email)]

(***************************************************************************)
(* process_workflow.                                                       *)
(***************************************************************************)
\* variant: a run counts as a success until something fails
NewWorkflowResultsOptimistic ==
    [success |-> TRUE, files_processed |-> <<>>, total_files |-> 0,
     successful_files |-> 0, failed_files |-> 0, error |-> NoError]

\* workflow_results as process_workflow first builds it
NewWorkflowResults ==
    [success |-> FALSE, files_processed |-> <<>>, total_files |-> 0,
     successful_files |-> 0, failed_files |-> 0, error |-> NoError]

IdleFrame ==
    [pc |-> "idle", ftp1 |-> 0, upload_filename |-> None,
     processed_file_path |-> None,
     results |-> [filename |-> None, success |-> FALSE,
                  original_file |-> None, converted_file |-> None,
                  appended_file |-> None, report_file |-> None,
                  error |-> NoError, analysis |-> FALSE]]

\* variant: the error is recorded but no failure notification is sent
WorkflowFailsSilently ==
    /\ workflow_results' = [workflow_results EXCEPT !.error = ErrorText]
    /\ notes' = notes
    /\ delivered' = delivered
    /\ pc' = "finally"

\* the except clause entered from the results w and the notifications n
WorkflowFailsFrom(w, n) ==
    /\ workflow_results' = [w EXCEPT !.error = ErrorText]
    /\ notes' = Append(n, "failure")
    /\ \E slack \in SlackOutcomes(config), email \in EmailOutcomes(config) :
          delivered' = Notified(slack, email)
    /\ pc' = "finally"

\* the except clause of process_workflow: record the error and send the
\* failure notification; the finally clause follows
WorkflowFails == WorkflowFailsFrom(workflow_results, notes)

\* variant: the names are compared with the keyword as they are spelled
FilterFilesCaseSensitive(all_files, keyword) ==
    IF keyword # None
    THEN LET Keep(f) == Contains(f, keyword)
         IN  SelectSeq(all_files, Keep)
    ELSE all_files

\* if keyword: [f for f in all_files if keyword.lower() in f.lower()];
\* otherwise all_files (None and '' are both false)
FilterFiles(all_files, keyword) ==
    IF keyword # None
    THEN LET Keep(f) == Contains(Lower(f), Lower(keyword))
         IN  SelectSeq(all_files, Keep)
    ELSE all_files

ConnectFtp ==
    /\ pc = "connect_ftp"
    /\ \E ok \in BOOLEAN :
        IF ok
        THEN /\ nConn' = nConn + 1
             /\ conn' = Append(conn, NewConn)
             /\ ftp1' = nConn + 1
             /\ pc' = "list"
             /\ UNCHANGED <<workflow_results, notes, delivered>>
        ELSE /\ WorkflowFails
             /\ UNCHANGED <<nConn, conn, ftp1>>
    /\ lastOps' = <<[op |-> "connect", h |-> 0]>>
    /\ UNCHANGED <<config, disk, session, summary, upload, mover,
                   an, now, srcDir, prevDir, downloads, pending,
                   dest,
                   files_to_process, idx, sf, ran, nOk, poll, pollGhost>>

\* variant: the notification is sent for an empty listing as well
DetectedNotesAlways(files, n) == Append(n, "detected")

\* if files_to_process: the files-detected notification by chat and by mail
DetectedNotes(files, n) ==
    IF files # <<>> THEN Append(n, "detected") ELSE n

\* list_ftp_files, the files-detected notification, the empty-list return
ListFiles ==
    /\ pc = "list"
    /\ lastOps' = <<[op |-> "cwd", h |-> ftp1], [op |-> "nlst", h |-> ftp1]>>
    /\ \E ok \in BOOLEAN :
        /\ ok => SrcOk(ftp1)
        /\ IF ~ok
           THEN /\ WorkflowFails
                /\ UNCHANGED <<conn, files_to_process>>
           ELSE LET files == FilterFiles(srcDir, config.keyword)
                IN  /\ conn' = conn
                    /\ files_to_process' = files
                    /\ IF files = <<>>
                       THEN /\ workflow_results' =
                                 [workflow_results EXCEPT !.success = TRUE,
                                                          !.total_files = 0]
                            /\ pc' = "finally"
                            /\ notes' = DetectedNotes(files, notes)
                            /\ delivered' = delivered
                       ELSE \E slack \in SlackOutcomes(config),
                               email \in EmailOutcomes(config) :
                               IF Notified(slack, email).raised
                               THEN WorkflowFailsFrom(
                                        workflow_results,
                                        DetectedNotes(files, notes))
                               ELSE /\ workflow_results' =
                                         [workflow_results EXCEPT
                                             !.total_files = Len(files)]
                                    /\ notes' = DetectedNotes(files, notes)
                                    /\ delivered' = Notified(slack, email)
                                    /\ pc' = "connect_sftp"
    /\ UNCHANGED <<config, disk, session, summary, upload, mover,
                   an, now, srcDir, prevDir, downloads, pending,
                   nConn,
                   dest, ftp1, idx, sf, ran, nOk, poll, pollGhost>>

\* connect_sftp: ssh.connect, then ssh.open_sftp; either may raise
ConnectSftp ==
    /\ pc = "connect_sftp"
    /\ \E o \in {"ok", "connect_failed", "open_sftp_failed"} :
        /\ dest' = [dest EXCEPT !.sshOpened = (o # "connect_failed"),
                                !.sftpOpened = (o = "ok"),
                                !.bound = (o = "ok")]
        /\ IF o = "ok"
           THEN /\ pc' = "loop"
                /\ UNCHANGED <<workflow_results, notes, delivered>>
           ELSE WorkflowFails
    /\ lastOps' = <<[op |-> "connect", h |-> 0]>>
    /\ UNCHANGED <<config, disk, session, summary, upload, mover,
                   an, now, srcDir, prevDir, downloads, pending,
                   nConn,
                   conn, ftp1, files_to_process, idx, sf, ran, nOk, poll,
                   pollGhost>>


(***************************************************************************)
(* process_single_file.  sf.pc names the step about to run; "return" is    *)
(* the return statement.                                                   *)
(***************************************************************************)
\* variant: the statements of step 7 are missing
NextStepSkipsDeliver(step) ==
    CASE step = "Download" -> "Relocate"
      [] step = "Relocate" -> "Convert"
      [] step = "Convert" -> "Submit"
      [] step = "Submit" -> "AwaitCompletion"
      [] step = "AwaitCompletion" -> "Retrieve"
      [] step = "Retrieve" -> "Analyze"
      [] step = "Deliver" -> "Analyze"
      [] step = "Analyze" -> "Report"
      [] step = "Report" -> "return"

\* the statement order inside the try block
NextStep(step) ==
    CASE step = "Download" -> "Relocate"
      [] step = "Relocate" -> "Convert"
      [] step = "Convert" -> "Submit"
      [] step = "Submit" -> "AwaitCompletion"
      [] step = "AwaitCompletion" -> "Retrieve"
      [] step = "Retrieve" -> "Deliver"
      [] step = "Deliver" -> "Analyze"
      [] step = "Analyze" -> "Report"
      [] step = "Report" -> "return"

\* variant: the error is recorded but control falls through to the next
\* statement
StepFailedContinues(f, step) ==
    [f EXCEPT !.results.error = ErrorText, !.pc = NextStep(step)]

\* a step raised: the except clause records the error and the function
\* returns
StepFailed(f, step) ==
    [f EXCEPT !.results.error = ErrorText, !.pc = "return"]

\* a step finished: control reaches the next statement
StepDone(f, step) == [f EXCEPT !.pc = NextStep(step)]

\* the call process_single_file(ftp1, sftp2, filename, idx, len(...))
CallSingleFile(handle, filename) ==
    [IdleFrame EXCEPT !.pc = "Download", !.ftp1 = handle,
                      !.results.filename = filename]

AtStep(step) == pc = "in_file" /\ sf.pc = step

Remove(seq, x) == LET Keep(y) == y # x IN SelectSeq(seq, Keep)

\* Step 1: download_from_ftp
Download ==
    /\ AtStep("Download")
    /\ ran' = Append(ran, "Download")
    /\ lastOps' = <<[op |-> "retr", h |-> sf.ftp1]>>
    /\ \E ok \in BOOLEAN :
        /\ ok => SrcOk(sf.ftp1)
        /\ IF ok
           THEN /\ sf' = StepDone([sf EXCEPT !.results.original_file =
                                       sf.results.filename], "Download")
                /\ nOk' = nOk + 1
           ELSE /\ sf' = StepFailed(sf, "Download")
                /\ nOk' = nOk
    /\ UNCHANGED <<config, disk, session, summary, upload, mover,
                   an, delivered, now, downloads, pending,
                   envVars, pc, ftp1,
                   files_to_process, idx, workflow_results, notes, poll,
                   pollGhost>>

\* variant: the file is copied, its name stays in the source directory
SourceAfterCopy(names, filename) == names

\* ftp.rename(source_path, dest_path): the name leaves the source directory
SourceAfterMove(names, filename) == Remove(names, filename)

\* Step 2: ensure_ftp_directory(previous_dir), then move_ftp_file
Relocate ==
    /\ AtStep("Relocate")
    /\ ran' = Append(ran, "Relocate")
    /\ \E o \in EnsureOutcomes(sf.ftp1), ok \in BOOLEAN :
        /\ ok => SrcOk(sf.ftp1)
        /\ lastOps' = EnsureOps(sf.ftp1, o)
                        \o <<[op |-> "rename", h |-> sf.ftp1]>>
        /\ IF ok
           THEN /\ srcDir' = SourceAfterMove(srcDir, sf.results.filename)
                /\ prevDir' = Append(Remove(prevDir, sf.results.filename),
                                     sf.results.filename)
                /\ sf' = StepDone(sf, "Relocate")
                /\ nOk' = nOk + 1
           ELSE /\ sf' = StepFailed(sf, "Relocate")
                /\ UNCHANGED <<srcDir, prevDir, nOk>>
    /\ UNCHANGED <<config, disk, session, summary, upload, mover,
                   an, delivered, now, downloads, pending,
                   nConn, conn, dest, pc,
                   ftp1, files_to_process, idx, workflow_results, notes, poll,
                   pollGhost>>

\* Step 3: convert_pipe_to_csv
Convert ==
    /\ AtStep("Convert")
    /\ ran' = Append(ran, "Convert")
    /\ lastOps' = <<>>
    /\ \E ok \in BOOLEAN :
        IF ok
        THEN /\ sf' = StepDone([sf EXCEPT !.results.converted_file =
                                    UploadName(sf.results.original_file)],
                               "Convert")
             /\ nOk' = nOk + 1
        ELSE /\ sf' = StepFailed(sf, "Convert")
             /\ nOk' = nOk
    /\ UNCHANGED <<config, disk, session, summary, upload, mover,
                   an, delivered, now, downloads, pending,
                   envVars, pc, ftp1,
                   files_to_process, idx, workflow_results, notes, poll,
                   pollGhost>>

\* Step 4: upload_to_sftp into uploads_hh/
Submit ==
    /\ AtStep("Submit")
    /\ ran' = Append(ran, "Submit")
    /\ lastOps' = <<[op |-> "put", h |-> 0]>>
    /\ \E ok \in BOOLEAN :
        IF ok
        THEN /\ sf' = StepDone([sf EXCEPT !.upload_filename =
                                    UploadName(sf.results.filename)],
                               "Submit")
             /\ pending' = UploadName(sf.results.filename)
             /\ nOk' = nOk + 1
        ELSE /\ sf' = StepFailed(sf, "Submit")
             /\ UNCHANGED <<pending, nOk>>
    /\ UNCHANGED <<config, disk, session, summary, upload, mover,
                   an, delivered, now, downloads, envVars, pc,
                   ftp1,
                   files_to_process, idx, workflow_results, notes, poll,
                   pollGhost>>

\* Step 5: the call of wait_for_processing_sftp
AwaitCall ==
    /\ AtStep("AwaitCompletion")
    /\ poll.pc = "idle"
    /\ ran' = Append(ran, "AwaitCompletion")
    /\ poll' = PollStart(sf.upload_filename)
    /\ nList' = 0
    /\ nSleep' = 0
    /\ nErr' = 0
    /\ lastListing' = NoListing
    /\ lastOps' = <<>>
    /\ UNCHANGED <<config, disk, session, summary, upload, mover,
                   an, delivered, now, downloads, pending,
                   envVars, pc, ftp1,
                   files_to_process, idx, workflow_results, sf, nOk, notes>>

\* Step 5: wait_for_processing_sftp returned or raised TimeoutError
AwaitReturn ==
    /\ AtStep("AwaitCompletion")
    /\ poll.pc \in {"returned", "timeout"}
    /\ IF poll.pc = "returned"
       THEN /\ sf' = StepDone([sf EXCEPT !.processed_file_path = poll.ret],
                              "AwaitCompletion")
            /\ nOk' = nOk + 1
       ELSE /\ sf' = StepFailed(sf, "AwaitCompletion")
            /\ nOk' = nOk
    /\ poll' = IdlePoll
    /\ pending' = None
    /\ nList' = 0
    /\ nSleep' = 0
    /\ nErr' = 0
    /\ lastListing' = NoListing
    /\ lastOps' = <<>>
    /\ UNCHANGED <<config, disk, session, summary, upload, mover,
                   an, delivered, now, downloads, envVars, pc,
                   ftp1,
                   files_to_process, idx, workflow_results, ran, notes>>

\* Step 6: download_from_sftp; Path(processed_file_path).name
Retrieve ==
    /\ AtStep("Retrieve")
    /\ ran' = Append(ran, "Retrieve")
    /\ lastOps' = <<[op |-> "get", h |-> 0]>>
    /\ \E ok \in BOOLEAN :
        IF ok
        THEN /\ sf' = StepDone([sf EXCEPT !.results.appended_file =
                                    Tail(sf.processed_file_path)],
                               "Retrieve")
             /\ nOk' = nOk + 1
        ELSE /\ sf' = StepFailed(sf, "Retrieve")
             /\ nOk' = nOk
    /\ UNCHANGED <<config, disk, session, summary, upload, mover,
                   an, delivered, now, downloads, pending,
                   envVars, pc, ftp1,
                   files_to_process, idx, workflow_results, notes, poll,
                   pollGhost>>


\* the handle process_single_file uses after its reconnect: the assignment
\* ftp1 = self.connect_ftp(...) rebinds the function's own parameter
Rebind(f, h) == [f EXCEPT !.ftp1 = h]

\* the liveness probe: ftp1.pwd()
Probe(h) == <<[op |-> "pwd", h |-> h]>>

\* variant: the new connection is probed as well
ReconnectProbesAgain(h0, h1) ==
    <<[op |-> "quit", h |-> h0], [op |-> "connect", h |-> h1],
      [op |-> "pwd", h |-> h1]>>

\* the except clause of the probe: ftp1.quit() with its error swallowed,
\* then connect_ftp (h1 = 0: the connect raised)
Reconnect(h0, h1) ==
    <<[op |-> "quit", h |-> h0], [op |-> "connect", h |-> h1]>>

\* Step 7: the liveness probe ftp1.pwd(), the reconnect when it raises,
\* ensure_ftp_directory(fpn_dest_dir), upload_to_ftp
Deliver ==
    /\ AtStep("Deliver")
    /\ ran' = Append(ran, "Deliver")
    /\ LET h0 == sf.ftp1
           probe == Probe(h0)
       IN  IF SrcOk(h0)
           THEN \E o \in EnsureOutcomes(h0), ok \in BOOLEAN :
                   /\ lastOps' = probe \o EnsureOps(h0, o)
                                   \o <<[op |-> "stor", h |-> h0]>>
                   /\ conn' = conn
                   /\ nConn' = nConn
                   /\ IF ok
                      THEN /\ sf' = StepDone(sf, "Deliver")
                           /\ nOk' = nOk + 1
                      ELSE /\ sf' = StepFailed(sf, "Deliver")
                           /\ nOk' = nOk
           ELSE \E reconnected \in BOOLEAN :
                   IF ~reconnected
                   THEN /\ lastOps' = probe \o Reconnect(h0, 0)
                        /\ conn' = QuitOn(conn, h0)
                        /\ nConn' = nConn
                        /\ sf' = StepFailed(sf, "Deliver")
                        /\ nOk' = nOk
                   ELSE LET h1 == nConn + 1
                            opened == Append(QuitOn(conn, h0), NewConn)
                        IN  \E o \in AllEnsureOutcomes, ok \in BOOLEAN :
                               /\ lastOps' =
                                     probe \o Reconnect(h0, h1)
                                       \o EnsureOps(h1, o)
                                       \o <<[op |-> "stor", h |-> h1]>>
                               /\ conn' = opened
                               /\ nConn' = h1
                               /\ IF ok
                                  THEN /\ sf' = StepDone(Rebind(sf, h1),
                                                         "Deliver")
                                       /\ nOk' = nOk + 1
                                  ELSE /\ sf' = StepFailed(Rebind(sf, h1),
                                                           "Deliver")
                                       /\ nOk' = nOk
    /\ UNCHANGED <<config, disk, session, summary, upload, mover,
                   an, delivered, now, srcDir, prevDir,
                   downloads, pending, dest, pc,
                   ftp1, files_to_process, idx, workflow_results, notes, poll,
                   pollGhost>>

\* Step 8: analyze_email_changes
Analyze ==
    /\ AtStep("Analyze")
    /\ ran' = Append(ran, "Analyze")
    /\ lastOps' = <<>>
    /\ \E ok \in BOOLEAN :
        IF ok
        THEN /\ sf' = StepDone(sf, "Analyze")
             /\ \E df_original \in LocalFiles(disk).originals,
                   df_appended \in LocalFiles(disk).appended :
                   \E forward \in TieOrders(df_appended) :
                      an' = Analyzed(an, df_original, df_appended, forward)
             /\ nOk' = nOk + 1
        ELSE /\ sf' = StepFailed(sf, "Analyze")
             /\ an' = an
             /\ nOk' = nOk
    /\ UNCHANGED <<config, disk, session, summary, upload, mover,
                   delivered, now, downloads, pending, envVars,
                   pc, ftp1,
                   files_to_process, idx, workflow_results, notes, poll,
                   pollGhost>>

\* variant: the success flag is set without the analysis being recorded
ReportedWithoutAnalysis(f) ==
    [f EXCEPT !.results.report_file = <<"report">>,
              !.results.success = TRUE]

\* the three assignments that follow generate_excel_report
Reported(f) ==
    [f EXCEPT !.results.report_file = <<"report">>,
              !.results.analysis = TRUE,
              !.results.success = TRUE]

\* Step 9: generate_excel_report, then the success fields
Report ==
    /\ AtStep("Report")
    /\ ran' = Append(ran, "Report")
    /\ lastOps' = <<>>
    /\ \E ok \in BOOLEAN :
        IF ok
        THEN /\ sf' = StepDone(Reported(sf), "Report")
             /\ nOk' = nOk + 1
        ELSE /\ sf' = StepFailed(sf, "Report")
             /\ nOk' = nOk
    /\ UNCHANGED <<config, disk, session, summary, upload, mover,
                   an, delivered, now, downloads, pending,
                   envVars, pc, ftp1,
                   files_to_process, idx, workflow_results, notes, poll,
                   pollGhost>>

(***************************************************************************)
(* The file loop of process_workflow, its summary and its finally clause.  *)
(***************************************************************************)
\* the handle the loop passes to process_single_file for the next file
LoopHandle == ftp1

\* variant: the list is walked from its end
NextFileFromEnd(files, i) == files[Len(files) + 1 - i]

\* enumerate(files_to_process, 1): the filename of iteration i
NextFile(files, i) == files[i]

\* for idx, filename in enumerate(files_to_process, 1): the call
StartFile ==
    /\ pc = "loop"
    /\ idx <= Len(files_to_process)
    /\ sf' = CallSingleFile(LoopHandle, NextFile(files_to_process, idx))
    /\ pc' = "in_file"
    /\ ran' = <<>>
    /\ nOk' = 0
    /\ lastOps' = <<>>
    /\ UNCHANGED <<config, disk, session, summary, upload, mover,
                   an, delivered, now, downloads, pending,
                   envVars, ftp1,
                   files_to_process, idx, workflow_results, notes, poll,
                   pollGhost>>

\* variant: a failed file's error is promoted to the batch error
TallyEscalates(w, result) ==
    [w EXCEPT !.files_processed = Append(@, result),
              !.successful_files = IF result.success THEN @ + 1 ELSE @,
              !.failed_files = IF result.success THEN @ ELSE @ + 1,
              !.error = IF result.success THEN @ ELSE result.error]

\* the loop body after the call: append the result and count it
Tally(w, result) ==
    [w EXCEPT !.files_processed = Append(@, result),
              !.successful_files = IF result.success THEN @ + 1 ELSE @,
              !.failed_files = IF result.success THEN @ ELSE @ + 1]

\* variant: after a failed file the destination connection is opened anew
LoopAgainReconnecting(result) ==
    IF result.success THEN "loop" ELSE "connect_sftp"

\* the for loop goes on to its next iteration on the connections it has
LoopAgain(result) == "loop"

FileReturn ==
    /\ AtStep("return")
    /\ workflow_results' = Tally(workflow_results, sf.results)
    /\ idx' = idx + 1
    /\ sf' = IdleFrame
    /\ pc' = LoopAgain(sf.results)
    /\ lastOps' = <<>>
    /\ UNCHANGED <<config, disk, session, summary, upload, mover,
                   an, delivered, now, downloads, pending,
                   envVars, ftp1,
                   files_to_process, ran, nOk, notes, poll, pollGhost>>

\* variant: the summary is composed but never sent
SummaryNotesDropped(w, n) == n

\* _send_workflow_notifications: nothing for a batch of no files, else the
\* summary by chat and by mail
SummaryNotes(w, n) ==
    IF w.total_files = 0 THEN n ELSE Append(n, "summary")

\* after the loop: the success flag and _send_workflow_notifications
Summary ==
    /\ pc = "loop"
    /\ idx > Len(files_to_process)
    /\ LET w == [workflow_results EXCEPT
                    !.success = (workflow_results.failed_files = 0)]
       IN  IF SummaryNotes(w, notes) = notes
           THEN /\ workflow_results' = w
                /\ notes' = notes
                /\ delivered' = delivered
                /\ pc' = "finally"
           ELSE \E slack \in SlackOutcomes(config),
                   email \in EmailOutcomes(config) :
                   IF Notified(slack, email).raised
                   THEN WorkflowFailsFrom(w, SummaryNotes(w, notes))
                   ELSE /\ workflow_results' = w
                        /\ notes' = SummaryNotes(w, notes)
                        /\ delivered' = Notified(slack, email)
                        /\ pc' = "finally"
    /\ lastOps' = <<>>
    /\ UNCHANGED <<config, disk, session, summary, upload, mover,
                   an, now, downloads, pending, envVars, ftp1,
                   files_to_process, idx, sf, ran, nOk, poll, pollGhost>>

\* the handle the finally clause calls quit() on
FinallyHandle == ftp1

\* finally: quit the source connection, close sftp2 and ssh2, each when
\* the local variable is set and each with its error swallowed; return
Finally ==
    /\ pc = "finally"
    /\ conn' = IF FinallyHandle # 0 THEN QuitOn(conn, FinallyHandle) ELSE conn
    /\ dest' = [dest EXCEPT !.sftpClosed = dest.bound,
                            !.sshClosed = dest.bound]
    /\ lastOps' = IF FinallyHandle # 0
                  THEN <<[op |-> "quit", h |-> FinallyHandle]>>
                  ELSE <<>>
    /\ pc' = "done"
    /\ UNCHANGED <<config, disk, session, summary, upload, mover,
                   an, delivered, now, srcDir, prevDir,
                   downloads, pending, nConn,
                   ftp1, files_to_process, idx, workflow_results, sf, ran, nOk,
                   notes, poll, pollGhost>>


(***************************************************************************)
(* The terminal summary of _send_workflow_notifications.                   *)
(***************************************************************************)
\* no summary was sent
NoSummary ==
    [sent |-> FALSE, status |-> "", total_files |-> 0, successful |-> 0,
     failed |-> 0, total_new_emails |-> 0, processed |-> <<>>,
     failures |-> <<>>]

\* r.get('analysis', {}).get('new_emails_count', 0)
NewEmailsCount(r) ==
    IF r.analysis.present THEN r.analysis.new_emails_count ELSE 0

\* sum(... for r in files_processed if r.get('success', False)) over the
\* first n results
RECURSIVE TotalNewEmails(_, _)
TotalNewEmails(files, n) ==
    IF n = 0 THEN 0
    ELSE TotalNewEmails(files, n - 1)
           + (IF files[n].success THEN NewEmailsCount(files[n]) ELSE 0)

\* variant: a batch with failures is FAILED whatever else succeeded
StatusAllOrNothing(successful, failed) ==
    IF failed = 0 THEN "SUCCESS" ELSE "FAILED"

\* "SUCCESS" if failed == 0 else "PARTIAL SUCCESS" if successful > 0 else
\* "FAILED"
Status(successful, failed) ==
    IF failed = 0 THEN "SUCCESS"
    ELSE IF successful > 0 THEN "PARTIAL SUCCESS"
    ELSE "FAILED"

\* the lines under "Successfully Processed"
ProcessedLines(w) ==
    IF w.successful_files > 0
    THEN LET Ok(r) == r.success
             ok == SelectSeq(w.files_processed, Ok)
         IN  [i \in 1..Len(ok) |-> [filename |-> ok[i].filename,
                                    emails |-> NewEmailsCount(ok[i])]]
    ELSE <<>>

\* the lines under "Failed Files": result['filename'] and
\* result.get('error', 'Unknown error')
FailedLines(w) ==
    IF w.failed_files > 0
    THEN LET Bad(r) == ~r.success
             bad == SelectSeq(w.files_processed, Bad)
         IN  [i \in 1..Len(bad) |-> [filename |-> bad[i].filename,
                                     error |-> bad[i].error]]
    ELSE <<>>

\* _send_workflow_notifications up to the message it builds
WorkflowSummary(w) ==
    IF w.total_files = 0 THEN NoSummary
    ELSE [sent |-> TRUE,
          status |-> Status(w.successful_files, w.failed_files),
          total_files |-> w.total_files,
          successful |-> w.successful_files,
          failed |-> w.failed_files,
          total_new_emails |->
              TotalNewEmails(w.files_processed, Len(w.files_processed)),
          processed |-> ProcessedLines(w),
          failures |-> FailedLines(w)]

(***************************************************************************)
(* upload_result of upload_result_to_fpn.py.                               *)
(***************************************************************************)
\* dest_dir and the root directory
UploadDestDir == <<"/", "to_FPN">>
RootDir == <<"/">>

\* Path(local_file).name of local_file = 'downloads/<name>'
UploadLocalFile == <<"downloads", "/", "results", ".", "csv">>
PathName(path) ==
    LET slashes == {i \in 1..Len(path) : path[i] = "/"}
    IN  IF slashes = {} THEN path
        ELSE SubSeq(path, (CHOOSE i \in slashes :
                              \A j \in slashes : j <= i) + 1, Len(path))

\* the script has not run: the server has its root directory, nothing is
\* stored
NoUpload ==
    [runs |-> 0, local |-> TRUE, dirs |-> {RootDir}, files |-> {},
     printed |-> <<>>, success |-> FALSE, available_at |-> <<>>,
     stored_in |-> <<>>]

\* what the server may answer in one run: cwd only into a directory there
\* is, mkd only for a directory there is not, the second cwd only after a
\* mkd that succeeded
UploadAnswers(u) ==
    {a \in [connect : BOOLEAN, cwd : BOOLEAN, mkd : BOOLEAN,
            cwd_created : BOOLEAN, cwd_root : BOOLEAN, stor : BOOLEAN] :
        /\ a.cwd => (a.connect /\ UploadDestDir \in u.dirs)
        /\ a.mkd => (a.connect /\ ~a.cwd /\ UploadDestDir \notin u.dirs)
        /\ a.cwd_created => a.mkd
        /\ a.cwd_root => (a.connect /\ ~a.cwd /\ ~a.cwd_created)
        /\ a.stor => (a.cwd \/ a.cwd_created \/ a.cwd_root)}

\* remote_path = f"{dest_dir}/{filename}", printed as the place the result
\* is available at
AvailableAt(dest_dir, filename) ==
    dest_dir \o <<"/">> \o filename

\* upload_result(): one run of the script against the answers a
UploadResult(u, a) ==
    LET filename == PathName(UploadLocalFile)
        run == [u EXCEPT !.runs = @ + 1, !.success = FALSE,
                         !.available_at = <<>>, !.stored_in = <<>>]
        made == IF a.mkd THEN u.dirs \cup {UploadDestDir} ELSE u.dirs
        \* the working directory STOR is issued in
        wd == IF a.cwd \/ a.cwd_created THEN UploadDestDir ELSE RootDir
        checked ==
            IF a.cwd THEN <<"Destination directory exists">>
            ELSE <<"Destination directory not accessible",
                   "Trying to create it...">>
                 \o (IF a.mkd THEN <<"Directory created!">> ELSE <<>>)
                 \o (IF a.cwd_created THEN <<>>
                     ELSE <<"Could not create directory",
                            "Uploading to root instead...">>)
    IN  IF ~u.local
        THEN [run EXCEPT !.printed = <<"Error: File not found">>]
        ELSE IF ~a.connect
        THEN [run EXCEPT !.printed = <<"Connecting", "Error">>]
        ELSE IF ~(a.cwd \/ a.cwd_created \/ a.cwd_root)
        THEN [run EXCEPT !.dirs = made,
                         !.printed = <<"Connecting", "Connected">>
                                       \o checked \o <<"Error">>]
        ELSE IF ~a.stor
        THEN [run EXCEPT !.dirs = made,
                         !.printed = <<"Connecting", "Connected">>
                                       \o checked
                                       \o <<"Uploading", "Error">>]
        ELSE [run EXCEPT !.dirs = made,
                         !.files = @ \cup {wd},
                         !.success = TRUE,
                         !.available_at =
                             AvailableAt(UploadDestDir, filename),
                         !.stored_in = wd,
                         !.printed = <<"Connecting", "Connected">>
                                       \o checked
                                       \o <<"Uploading", "[SUCCESS]",
                                            "Result file is now available">>]

(***************************************************************************)
(* move_file_back of move_file_back.py.                                    *)
(***************************************************************************)
\* the script has not run: previous holds the names of the archival
\* directory, source those of the source directory
NoMover ==
    [runs |-> 0, previous |-> <<>>, source |-> <<>>, listed |-> <<>>,
     was_previous |-> <<>>, was_source |-> <<>>, renamed |-> <<>>,
     quit |-> FALSE, outcome |-> "none"]

\* variant: the first listed file is taken whatever its name
SelectedFirst(files) == files[1]

\* email_files = [f for f in files if 'email' in f.lower()]; the first of
\* them, else files[0] (both other branches)
Selected(files) ==
    LET IsEmail(f) == Contains(Lower(f), <<"email">>)
        email_files == SelectSeq(files, IsEmail)
    IN  IF email_files # <<>> THEN email_files[1] ELSE files[1]

\* what the server may answer in one run; an error of ftp.quit() is
\* printed by the except clause and changes nothing else
MoverAnswers ==
    {a \in [connect : BOOLEAN, list : BOOLEAN, rename : BOOLEAN] :
        /\ a.list => a.connect
        /\ a.rename => a.list}

\* move_file_back(): one run of the script against the answers a; quit
\* tells that ftp.quit() was called
MoveFileBack(m, a) ==
    LET run == [m EXCEPT !.runs = @ + 1, !.listed = <<>>,
                         !.was_previous = m.previous,
                         !.was_source = m.source,
                         !.renamed = <<>>, !.quit = FALSE]
    IN  IF ~a.connect THEN [run EXCEPT !.outcome = "connect_error"]
        ELSE IF ~a.list THEN [run EXCEPT !.outcome = "list_error"]
        ELSE IF m.previous = <<>>
        THEN [run EXCEPT !.quit = TRUE, !.outcome = "no_files"]
        ELSE LET filename == Selected(m.previous)
             IN  IF ~a.rename
                 THEN [run EXCEPT !.listed = m.previous,
                                  !.outcome = "rename_error"]
                 ELSE [run EXCEPT !.listed = m.previous,
                                  !.previous = Remove(@, filename),
                                  !.source = Append(@, filename),
                                  !.renamed = filename,
                                  !.quit = TRUE,
                                  !.outcome = "moved"]

(***************************************************************************)
(* Initial states and specifications.                                      *)
(***************************************************************************)
\* what ftp.nlst() of the source directory can return: a listing of at
\* most MaxFiles names, in one of two server orders
ServerOrders ==
    {<< <<"q", "email", ".", "csv">>, <<"email", ".", "csv">>,
        <<"b", ".", "csv">>, <<"q", "Email", ".", "txt">> >>,
     << <<"b", ".", "csv">>, <<"email", ".", "csv">>,
        <<"q", "email", ".", "csv">>, <<"q", "Email", ".", "txt">> >>}

SourceListings ==
    {SubSeq(o, 1, k) : o \in ServerOrders, k \in 0..MaxFiles}

Keywords == {None, <<"email">>}

\* a result an earlier run left in downloads/, old or recent
PriorEntries ==
    [filename : {ResultName(UploadName(<<"email", ".", "csv">>))},
     st_mtime : {0 - SecondsPerHour}]

NoDest ==
    [sshOpened |-> FALSE, sftpOpened |-> FALSE, bound |-> FALSE,
     sshClosed |-> FALSE, sftpClosed |-> FALSE]

Init ==
    /\ config \in [keyword : Keywords,
                   max_wait_minutes : {1},
                   check_interval : {30},
                   send_slack_notification : {FALSE},
                   slack_webhook_url : {None},
                   send_email_notification : {FALSE},
                   smtp_server : {None}]
    /\ now = 0
    /\ srcDir \in SourceListings
    /\ prevDir = <<>>
    /\ downloads \in Seqs(PriorEntries, MaxEntries)
    /\ pending = None
    /\ nConn = 0
    /\ conn = <<>>
    /\ dest = NoDest
    /\ pc = "connect_ftp"
    /\ ftp1 = 0
    /\ files_to_process = <<>>
    /\ idx = 1
    /\ workflow_results = NewWorkflowResults
    /\ sf = IdleFrame
    /\ poll = IdlePoll
    /\ ran = <<>>
    /\ nOk = 0
    /\ lastOps = <<>>
    /\ nList = 0
    /\ nSleep = 0
    /\ nErr = 0
    /\ lastListing = NoListing
    /\ notes = <<>>
    /\ delivered = NoDelivery
    /\ session = NoSession
    /\ summary = NoSummary
    /\ upload = NoUpload
    /\ mover = NoMover
    /\ an = NewAnalyzer
    /\ disk = "workflow"

Next ==
    \/ ConnectFtp
    \/ ListFiles
    \/ ConnectSftp
    \/ StartFile
    \/ Download
    \/ Relocate
    \/ Convert
    \/ Submit
    \/ AwaitCall
    \/ PollAttempt
    \/ PollSleep
    \/ PollTimeout
    \/ AwaitReturn
    \/ Retrieve
    \/ Deliver
    \/ Analyze
    \/ Report
    \/ FileReturn
    \/ Summary
    \/ Finally
    \/ GoStale
    \/ ServiceWrites

Spec == Init /\ [][Next]_vars


(***************************************************************************)
(* The poller on its own: wait_for_processing_sftp called with any of the  *)
(* bounded inputs, against a downloads/ directory in any bounded state.    *)
(***************************************************************************)
PollUploads ==
    {UploadName(<<"email", ".", "csv">>), UploadName(<<"b", ".", "csv">>)}

\* names in downloads/: a result found at each of the modification times,
\* and, freshly written, other results and names that miss one of the
\* naming conditions
PollNames == {<<"email", "_converted", "-results-", "1", ".", "csv">>}

OtherNames ==
    {<<"email", "_converted", "-results-", "2", ".", "csv">>,
     <<"b", "_converted", "-results-", "1", ".", "csv">>,
     <<"email", "_converted", ".", "csv">>,
     <<"email", "_converted", "-results-", "1", ".", "txt">>}

\* modification times: exactly two hours before the call, thirty seconds
\* inside the window, and the time of the call
PollMtimes == {0 - RecencyHours * SecondsPerHour,
               30 - RecencyHours * SecondsPerHour,
               0}

PollEntries ==
    [filename : PollNames, st_mtime : PollMtimes]
        \cup [filename : OtherNames, st_mtime : {0}]

CheckIntervals == {30, 45, 150}

PollInit ==
    /\ config \in [keyword : {None},
                   max_wait_minutes : 1..MaxWaitMinutes,
                   check_interval : CheckIntervals,
                   send_slack_notification : {FALSE},
                   slack_webhook_url : {None},
                   send_email_notification : {FALSE},
                   smtp_server : {None}]
    /\ now = 0
    /\ srcDir = <<>>
    /\ prevDir = <<>>
    /\ downloads \in Seqs(PollEntries, MaxEntries + 1)
    /\ pending \in PollUploads
    /\ nConn = 0
    /\ conn = <<>>
    /\ dest = [NoDest EXCEPT !.sshOpened = TRUE, !.sftpOpened = TRUE,
                             !.bound = TRUE]
    /\ pc = "polling"
    /\ ftp1 = 0
    /\ files_to_process = <<>>
    /\ idx = 1
    /\ workflow_results = NewWorkflowResults
    /\ sf = [IdleFrame EXCEPT !.upload_filename = pending]
    /\ poll = PollStart(pending)
    /\ ran = <<>>
    /\ nOk = 0
    /\ lastOps = <<>>
    /\ nList = 0
    /\ nSleep = 0
    /\ nErr = 0
    /\ lastListing = NoListing
    /\ notes = <<>>
    /\ delivered = NoDelivery
    /\ session = NoSession
    /\ summary = NoSummary
    /\ upload = NoUpload
    /\ mover = NoMover
    /\ an = NewAnalyzer
    /\ disk = "workflow"

PollNext ==
    \/ PollAttempt
    \/ PollSleep
    \/ PollTimeout
    \/ ServiceWrites

PollSpec == PollInit /\ [][PollNext]_vars


(***************************************************************************)
(* Properties.                                                             *)
(***************************************************************************)
Returned == pc = "done"

\* C1: every BatchRun returned by process_workflow, on every exit path,
\* has successful_files + failed_files = total_files.
C1_CountsAddUp ==
    Returned =>
        workflow_results.successful_files + workflow_results.failed_files
            = workflow_results.total_files

SourceOpNames == {"retr", "cwd", "nlst", "mkd", "rename", "stor", "pwd"}

\* the operations of an action that follow its reconnect, if it made one
OpsAfterReconnect(ops) ==
    IF \E i \in 1..Len(ops) : ops[i].op = "connect" /\ ops[i].h # 0
    THEN LET i == CHOOSE k \in 1..Len(ops) :
                     ops[k].op = "connect" /\ ops[k].h # 0
         IN  SubSeq(ops, i + 1, Len(ops))
    ELSE ops

\* C2: once a probe failure has made process_single_file reconnect, every
\* later source-endpoint operation of the batch is issued on the newly
\* opened handle, never on the stale one.
C2_OpsOnLatestHandle ==
    nConn > 1 =>
        \A i \in 1..Len(OpsAfterReconnect(lastOps)) :
            LET e == OpsAfterReconnect(lastOps)[i]
            IN  e.op \in SourceOpNames => e.h = nConn

\* C3: when process_workflow returns, close has been invoked on every
\* connection opened during the run, the reconnected source connection
\* included, on every exit path.
C3_EveryConnectionClosed ==
    Returned =>
        /\ \A h \in 1..nConn : conn[h].quit
        /\ dest.sshOpened => dest.sshClosed
        /\ dest.sftpOpened => dest.sftpClosed

FileFailed == pc = "in_file" /\ sf.results.error # NoError

\* C4: once a step of a file has failed, no later step of that file runs
\* and nothing more happens for it: no remote operation, no poll, no
\* transfer, no change of its record before it is handed back.
C4_NoStepAfterFailure ==
    [][FileFailed =>
          /\ ran' = ran
          /\ nOk' = nOk
          /\ lastOps' = <<>>
          /\ poll' = poll
          /\ nList' = nList
          /\ <<srcDir, prevDir, downloads, pending, nConn>>' =
                <<srcDir, prevDir, downloads, pending, nConn>>
          /\ IF pc' = "in_file"
             THEN sf' = sf
             ELSE workflow_results'.files_processed =
                     Append(workflow_results.files_processed, sf.results)
      ]_vars

\* a file that failed at a step after several steps had taken effect
C4_Witness ==
    /\ FileFailed
    /\ sf.pc = "return"
    /\ Len(ran) = 6
    /\ nOk = 5

StepOrder ==
    <<"Download", "Relocate", "Convert", "Submit", "AwaitCompletion",
      "Retrieve", "Deliver", "Analyze", "Report">>

\* C5: within one file the steps run in the order Download, Relocate,
\* Convert, Submit, AwaitCompletion, Retrieve, Deliver, Analyze, Report:
\* none skipped, none twice, each only after its predecessor completed.
C5_StepsInOrder ==
    /\ Len(ran) <= Len(StepOrder)
    /\ ran = SubSeq(StepOrder, 1, Len(ran))
    /\ nOk \in {Len(ran) - 1, Len(ran)} \cap Nat

\* a file all of whose nine steps ran and completed
C5_Witness ==
    /\ pc = "in_file"
    /\ sf.pc = "return"
    /\ sf.results.success
    /\ Len(ran) = 9
    /\ nOk = 9

\* C6: a failed step of file i is recorded as that file's error with
\* success = false and does not abort the batch: every file listed after
\* i still goes through the pipeline and the batch error stays unset.
C6_FileFailureDoesNotAbortBatch ==
    LET done == workflow_results.files_processed
    IN  /\ \A i \in 1..Len(done) :
              /\ done[i].filename = files_to_process[i]
              /\ done[i].success \/ done[i].error # NoError
        /\ pc \in {"loop", "in_file"} => workflow_results.error = NoError
        /\ (pc \in {"finally", "done"} /\ Len(done) > 0) =>
              /\ Len(done) = Len(files_to_process)
              /\ workflow_results.error = NoError

\* a returned batch whose first file failed waiting for its result and
\* whose second file succeeded
C6_Witness ==
    LET done == workflow_results.files_processed
    IN  /\ Returned
        /\ Len(done) = 2
        /\ ~done[1].success
        /\ done[1].converted_file # None
        /\ done[1].appended_file = None
        /\ done[2].success

\* the four conditions of a qualifying entry
Qualifying(e, base, t) ==
    /\ Contains(e.filename, base)
    /\ Contains(e.filename, <<"-results-">>)
    /\ EndsWith(e.filename, <<".", "csv">>)
    /\ t - e.st_mtime < 2 * 3600

HasQualifying(listing, base, t) ==
    /\ ~listing.raised
    /\ \E i \in 1..Len(listing.files) :
          Qualifying(listing.files[i], base, t)

\* C7: with no qualifying entry the poller raises TimeoutError after
\* exactly floor(max_wait_minutes * 60 / check_interval) listing attempts,
\* an attempt whose listing raised counting as one.
C7_TimeoutAfterExactAttempts ==
    LET budget == (config.max_wait_minutes * 60) \div config.check_interval
    IN  /\ nList <= budget
        /\ poll.pc = "timeout" => nList = budget

\* a timeout after four attempts, one of which raised
C7_Witness ==
    /\ poll.pc = "timeout"
    /\ nList = 4
    /\ nErr = 1

\* C8: the poller returns on the first listing attempt that shows a
\* qualifying entry, with no listing and no suspension after it, and what
\* it returns names an entry that qualified in that listing.
C8_ReturnsOnFirstQualifyingAttempt ==
    /\ poll.pc = "returned" =>
          /\ ~lastListing.raised
          /\ \E i \in 1..Len(lastListing.files) :
                /\ Qualifying(lastListing.files[i], poll.base, now)
                /\ poll.ret =
                      <<"downloads/">> \o lastListing.files[i].filename
          /\ nSleep = nList - 1
    /\ poll.pc = "sleep" => ~HasQualifying(lastListing, poll.base, now)

\* a return on the third attempt
C8_Witness ==
    /\ poll.pc = "returned"
    /\ nList = 3
    /\ nErr = 0

\* C9: a listing error on one attempt does not end the poll: it costs
\* exactly one attempt, the poller sleeps for the check interval, and a
\* qualifying entry seen on a later attempt is still returned.
C9_ListingErrorCostsOneAttempt ==
    [][/\ nErr' = nErr + 1 =>
              /\ nList' = nList + 1
              /\ poll' = [poll EXCEPT !.attempts = @ + 1, !.pc = "sleep"]
       /\ (poll.pc = "sleep" /\ poll' # poll) =>
              /\ poll' = [poll EXCEPT !.pc = "loop"]
              /\ now' = now + config.check_interval
              /\ nSleep' = nSleep + 1
       /\ (nErr > 0 /\ nList' = nList + 1
             /\ HasQualifying(lastListing', poll.base, now)) =>
              poll'.pc = "returned"
      ]_vars

\* a return on an attempt that follows one whose listing raised
C9_Witness ==
    /\ poll.pc = "returned"
    /\ nErr > 0

MaxNameLen == 6

NameTokens == {"q", ".", "csv"}

\* source file names: a leading name token, then any tokens, then ".csv"
SourceNames ==
    {<<"q">> \o m \o DotCsv : m \in Seqs(NameTokens, MaxNameLen - 3)}

NameInit ==
    /\ config \in [keyword : {None},
                   max_wait_minutes : {1},
                   check_interval : {30},
                   send_slack_notification : {FALSE},
                   slack_webhook_url : {None},
                   send_email_notification : {FALSE},
                   smtp_server : {None}]
    /\ now = 0
    /\ \E filename \in SourceNames :
          /\ srcDir = <<>>
          /\ prevDir = <<filename>>
          /\ files_to_process = <<filename>>
          /\ sf = [CallSingleFile(1, filename) EXCEPT
                      !.pc = "Submit",
                      !.results.original_file = filename,
                      !.results.converted_file = UploadName(filename)]
    /\ downloads = <<>>
    /\ pending = None
    /\ nConn = 1
    /\ conn = <<NewConn>>
    /\ dest = [NoDest EXCEPT !.sshOpened = TRUE, !.sftpOpened = TRUE,
                             !.bound = TRUE]
    /\ pc = "in_file"
    /\ ftp1 = 1
    /\ idx = 1
    /\ workflow_results = [NewWorkflowResults EXCEPT !.total_files = 1]
    /\ poll = IdlePoll
    /\ ran = <<"Download", "Relocate", "Convert">>
    /\ nOk = 3
    /\ lastOps = <<>>
    /\ nList = 0
    /\ nSleep = 0
    /\ nErr = 0
    /\ lastListing = NoListing
    /\ notes = <<"detected">>
    /\ delivered = NoDelivery
    /\ session = NoSession
    /\ summary = NoSummary
    /\ upload = NoUpload
    /\ mover = NoMover
    /\ an = NewAnalyzer
    /\ disk = "workflow"

NameNext ==
    \/ Submit
    \/ AwaitCall

NameSpec == NameInit /\ [][NameNext]_vars

\* a name with every "." token removed
WithoutDots(s) == LET Keep(t) == t # "." IN SelectSeq(s, Keep)

\* a name ending in ".csv" with that trailing extension removed
WithoutTrailingCsv(s) == SubSeq(s, 1, Len(s) - Len(DotCsv))

\* the poll for the current file's upload has been entered
PollEntered == AtStep("AwaitCompletion") /\ poll.pc = "loop"

\* C11: for every source filename the upload name is <stem>_converted.csv
\* and the normalized base name used for matching is the upload name with
\* only its trailing extension removed and then every "." removed, also
\* when the stem itself contains ".csv".
C11_NormalizedBaseOfUpload ==
    PollEntered =>
        /\ sf.upload_filename =
              Stem(sf.results.filename) \o <<"_converted">> \o DotCsv
        /\ poll.base = WithoutDots(WithoutTrailingCsv(sf.upload_filename))

(***************************************************************************)
(* The analyzer on its own: one processor, analyze_email_changes called    *)
(* any number of times on pairs of files.                                  *)
(***************************************************************************)
\* one call of analyze_email_changes
AnalyzeCall ==
    /\ pc = "analyzing"
    /\ \/ \E df_original \in LocalFiles(disk).originals,
             df_appended \in LocalFiles(disk).appended :
             \E forward \in TieOrders(df_appended) :
                an' = Analyzed(an, df_original, df_appended, forward)
       \/ an' = AnalyzeRaised(an)
    /\ UNCHANGED <<config, disk, session, summary, upload, mover,
                   delivered, now, envVars, downloads, pending,
                   wfVars,
                   poll, lastOps, pollGhost>>

\* a processor just constructed, its workflow not started
AnalyzerAlone ==
    /\ config \in [keyword : {None},
                   max_wait_minutes : {1},
                   check_interval : {30},
                   send_slack_notification : {FALSE},
                   slack_webhook_url : {None},
                   send_email_notification : {FALSE},
                   smtp_server : {None}]
    /\ now = 0
    /\ srcDir = <<>>
    /\ prevDir = <<>>
    /\ downloads = <<>>
    /\ pending = None
    /\ nConn = 0
    /\ conn = <<>>
    /\ dest = NoDest
    /\ pc = "analyzing"
    /\ ftp1 = 0
    /\ files_to_process = <<>>
    /\ idx = 1
    /\ workflow_results = NewWorkflowResults
    /\ sf = IdleFrame
    /\ poll = IdlePoll
    /\ ran = <<>>
    /\ nOk = 0
    /\ lastOps = <<>>
    /\ nList = 0
    /\ nSleep = 0
    /\ nErr = 0
    /\ lastListing = NoListing
    /\ notes = <<>>
    /\ delivered = NoDelivery
    /\ session = NoSession
    /\ summary = NoSummary
    /\ upload = NoUpload
    /\ mover = NoMover
    /\ an = NewAnalyzer

AnalyzeInit ==
    /\ AnalyzerAlone
    /\ disk = "analysis"

AnalyzeNext == AnalyzeCall

AnalyzeSpec == AnalyzeInit /\ [][AnalyzeNext]_vars

(***************************************************************************)
(* The analyzer on files with more distinct emails than the display cap.   *)
(***************************************************************************)
CapInit ==
    /\ AnalyzerAlone
    /\ disk = "bulk"

CapSpec == CapInit /\ [][AnalyzeNext]_vars

(***************************************************************************)
(* Properties of analyze_email_changes.                                    *)
(***************************************************************************)
\* the latest call returned
AnalysisReturned == an.outcome = "returned"

\* the latest call returned and its result file has an email column
WithEmailColumn ==
    AnalysisReturned /\ EmailColumn(an.appended_file) # None

\* the non-empty values of the claim's email column in a file, none when
\* the file lacks the column
Values(df) ==
    LET col == EmailColumn(an.appended_file)
    IN  IF HasColumn(df, col)
        THEN {Column(df, col)[i] : i \in 1..RowCount(df)} \ {NaN}
        ELSE {}

\* the rows of a file whose cell in the claim's email column is not empty
FilledRows(df) ==
    LET col == EmailColumn(an.appended_file)
    IN  IF col # None /\ HasColumn(df, col)
        THEN {i \in 1..RowCount(df) : Column(df, col)[i] # NaN}
        ELSE {}

\* the number of rows of the result file holding the email v
RowsHolding(v) ==
    LET cells == Column(an.appended_file, EmailColumn(an.appended_file))
    IN  Cardinality({i \in 1..Len(cells) : cells[i] = v})

\* the emails held by at least two rows of the result file
RepeatedValues == {v \in Values(an.appended_file) : RowsHolding(v) >= 2}

\* C12: the result of a call is determined by its two input files alone:
\* it is the result the same inputs give on a newly constructed processor,
\* whatever the processor analyzed before.
C12_ResultOfInputsOnly ==
    AnalysisReturned =>
        \E forward \in BOOLEAN :
            an.results = Analyzed(NewAnalyzer, an.original_file,
                                  an.appended_file, forward).results

\* C13: when the result file has no column whose header contains "email",
\* every count of the returned result is zero and both lists are empty.
C13_DegenerateResultIsZero ==
    (AnalysisReturned /\ EmailColumn(an.appended_file) = None) =>
        /\ an.results.total_records_before = 0
        /\ an.results.total_records_after = 0
        /\ an.results.emails_before = 0
        /\ an.results.emails_after = 0
        /\ an.results.new_emails_count = 0
        /\ an.results.duplicate_count = 0
        /\ an.results.new_emails = <<>>
        /\ an.results.duplicate_emails = <<>>

\* C14: with an email column in the result file, the new emails are the
\* non-empty values of the result file minus the non-empty values of the
\* converted file; all of the result file's when the converted file lacks
\* the column.
C14_NewEmailsAreSetDifference ==
    WithEmailColumn =>
        /\ ToSet(an.new_emails) =
              Values(an.appended_file) \ Values(an.original_file)
        /\ ~HasColumn(an.original_file, EmailColumn(an.appended_file)) =>
              ToSet(an.new_emails) = Values(an.appended_file)

\* a call where the converted file has the column and held one of the
\* result file's emails, and another email is new
C14_Witness ==
    /\ WithEmailColumn
    /\ HasColumn(an.original_file, EmailColumn(an.appended_file))
    /\ Values(an.appended_file) \cap Values(an.original_file) # {}
    /\ an.new_emails # <<>>

\* C15: with an email column in the result file, duplicate_emails holds
\* exactly the non-empty values that occur at least twice in that column,
\* each once, never the empty cell, and duplicate_count is their number.
C15_DuplicatesOccurTwice ==
    WithEmailColumn =>
        /\ ToSet(an.duplicate_emails) = RepeatedValues
        /\ Len(an.duplicate_emails) = Cardinality(RepeatedValues)
        /\ NaN \notin ToSet(an.duplicate_emails)
        /\ an.results.duplicate_count = Cardinality(RepeatedValues)

\* a call on a result file with a repeated email, an email held once and
\* two empty cells
C15_Witness ==
    /\ WithEmailColumn
    /\ an.duplicate_emails # <<>>
    /\ Values(an.appended_file) \ RepeatedValues # {}
    /\ Cardinality(FilledRows(an.appended_file)) + 2
          <= RowCount(an.appended_file)

\* C16: emails_before and emails_after are the numbers of rows with a
\* non-empty email cell in the converted and in the result file,
\* emails_before being 0 when the converted file lacks the column; neither
\* exceeds the file's record count.
C16_EmailCountsAreFilledRows ==
    AnalysisReturned =>
        /\ an.results.emails_before =
              Cardinality(FilledRows(an.original_file))
        /\ an.results.emails_after =
              Cardinality(FilledRows(an.appended_file))
        /\ an.results.emails_before <= an.results.total_records_before
        /\ an.results.emails_after <= an.results.total_records_after

\* a call where both files hold emails and the result file has an empty
\* cell and a repeated email
C16_Witness ==
    /\ WithEmailColumn
    /\ an.results.emails_before > 0
    /\ an.results.emails_after < an.results.total_records_after
    /\ an.results.emails_after > Cardinality(Values(an.appended_file))

\* a sequence in strictly ascending order
Ascending(seq) == \A i \in 1..(Len(seq) - 1) : seq[i] < seq[i + 1]

\* the smaller of the display cap and n
Capped(n) == IF n < DisplayCap THEN n ELSE DisplayCap

\* list is the first Capped(|all|) elements of the ascending sequence of
\* the set all
FirstOfAscending(list, all) ==
    /\ Len(list) = Capped(Cardinality(all))
    /\ Ascending(list)
    /\ ToSet(list) \subseteq all
    /\ \A v \in all \ ToSet(list) : \A i \in 1..Len(list) : list[i] < v

\* the new emails of the latest call
NewValues == Values(an.appended_file) \ Values(an.original_file)

\* C17 as stated: new_emails is the first min(100, n) elements of the
\* ascending sequence of all n new emails and new_emails_count is n;
\* duplicate_emails is likewise the first min(100, m) elements of the
\* ascending sequence of the m duplicates and duplicate_count is m.
C17_BothListsAscendingCapped ==
    WithEmailColumn =>
        /\ FirstOfAscending(an.results.new_emails, NewValues)
        /\ an.results.new_emails_count = Cardinality(NewValues)
        /\ FirstOfAscending(an.results.duplicate_emails, RepeatedValues)
        /\ an.results.duplicate_count = Cardinality(RepeatedValues)

\* C17 amended: new_emails is the first min(100, n) elements of the
\* ascending sequence of all n new emails and new_emails_count is n;
\* duplicate_emails is the first min(100, m) elements of the m duplicates
\* listed once each in descending order of occurrence count, and
\* duplicate_count is m.
C17_ListsCappedCountsUncapped ==
    WithEmailColumn =>
        /\ FirstOfAscending(an.results.new_emails, NewValues)
        /\ an.results.new_emails_count = Cardinality(NewValues)
        /\ ToSet(an.duplicate_emails) = RepeatedValues
        /\ Len(an.duplicate_emails) = Cardinality(RepeatedValues)
        /\ \A i \in 1..(Len(an.duplicate_emails) - 1) :
              RowsHolding(an.duplicate_emails[i])
                  >= RowsHolding(an.duplicate_emails[i + 1])
        /\ an.results.duplicate_emails =
              SubSeq(an.duplicate_emails, 1,
                     Capped(Len(an.duplicate_emails)))
        /\ an.results.duplicate_count = Cardinality(RepeatedValues)

\* a call with more new emails and more duplicates than the display cap
C17_Witness ==
    /\ WithEmailColumn
    /\ an.results.new_emails_count > DisplayCap
    /\ Len(an.results.new_emails) = DisplayCap
    /\ an.results.duplicate_count > DisplayCap
    /\ Len(an.results.duplicate_emails) = DisplayCap

(***************************************************************************)
(* Properties of the probe, of batch-level failures and of the terminal    *)
(* notification.                                                           *)
(***************************************************************************)
\* how many of the operations are of the given kind
CountOp(ops, kind) == Cardinality({i \in 1..Len(ops) : ops[i].op = kind})

\* the Deliver step of the current file runs in this step
DeliverRuns == AtStep("Deliver") /\ ran' = Append(ran, "Deliver")

\* C18: within one file the probe is issued exactly once, after Retrieve
\* and before the directory check and the upload; a failed probe causes
\* exactly one close of the stale handle followed by exactly one reconnect,
\* and no other step of the file probes, closes or reconnects, also when
\* the directory check or the upload fails afterwards.
C18_OneProbeOneReconnect ==
    [][pc = "in_file" =>
          IF DeliverRuns
          THEN /\ ran = SubSeq(StepOrder, 1, 6)
               /\ CountOp(lastOps', "pwd") = 1
               /\ lastOps'[1] = [op |-> "pwd", h |-> sf.ftp1]
               /\ IF SrcOk(sf.ftp1)
                  THEN /\ CountOp(lastOps', "quit") = 0
                       /\ CountOp(lastOps', "connect") = 0
                       /\ nConn' = nConn
                  ELSE /\ CountOp(lastOps', "quit") = 1
                       /\ CountOp(lastOps', "connect") = 1
                       /\ lastOps'[2] = [op |-> "quit", h |-> sf.ftp1]
                       /\ lastOps'[3].op = "connect"
                       /\ conn'[sf.ftp1].quit
                       /\ nConn' <= nConn + 1
               /\ \A i \in 1..Len(lastOps') :
                     lastOps'[i].op \in {"cwd", "mkd", "stor"} =>
                        /\ i > 1
                        /\ \A j \in (i + 1)..Len(lastOps') :
                              lastOps'[j].op \in {"cwd", "mkd", "stor"}
          ELSE /\ CountOp(lastOps', "pwd") = 0
               /\ CountOp(lastOps', "quit") = 0
               /\ CountOp(lastOps', "connect") = 0
               /\ nConn' = nConn
      ]_vars

\* a file whose probe failed, which reconnected, and whose upload on the
\* new connection then failed
C18_Witness ==
    /\ AtStep("return")
    /\ Len(ran) = 7
    /\ sf.ftp1 # ftp1
    /\ CountOp(lastOps, "stor") = 1
    /\ sf.results.error # NoError

\* the notifications of the given kind emitted so far
CountNotes(kind) == Cardinality({i \in 1..Len(notes) : notes[i] = kind})

\* the batch failed: the except clause of process_workflow recorded an error
BatchFailed == workflow_results.error # NoError

\* C19: a failure of the initial source connect, of the source listing or
\* of the destination connect aborts the run: no per-file step of any file
\* runs afterwards, the returned BatchRun has success = false and an
\* error, and exactly one failure notification and no summary is emitted.
C19_BatchFailureAborts ==
    [][/\ (/\ pc \in {"connect_ftp", "list", "connect_sftp"}
           /\ pc' = "finally"
           /\ ~workflow_results'.success) => BatchFailed'
       /\ BatchFailed' =>
             /\ pc' \in {"finally", "done"}
             /\ ran' = <<>>
             /\ sf' = IdleFrame
             /\ workflow_results'.files_processed = <<>>
             /\ ~workflow_results'.success
             /\ CountNotes("failure")' = 1
             /\ CountNotes("summary")' = 0
      ]_vars

\* a run returned after its destination connect failed
C19_Witness ==
    /\ Returned
    /\ BatchFailed
    /\ workflow_results.total_files > 0
    /\ ~dest.bound

\* C20 as stated: every run emits exactly one terminal notification, the
\* summary or the failure notification and never both, after the last
\* per-file step.
C20_ExactlyOneTerminalNotification ==
    /\ Returned => CountNotes("summary") + CountNotes("failure") = 1
    /\ CountNotes("summary") + CountNotes("failure") > 0 =>
          pc \in {"finally", "done"}

\* C20 amended: a run whose listing is empty emits no terminal
\* notification; every other run emits exactly one, the summary or the
\* failure notification and never both, after the last per-file step.
C20_OneTerminalNotificationUnlessEmpty ==
    /\ Returned =>
          CountNotes("summary") + CountNotes("failure") =
             IF workflow_results.total_files = 0 /\ ~BatchFailed
             THEN 0 ELSE 1
    /\ CountNotes("summary") + CountNotes("failure") <= 1
    /\ CountNotes("summary") + CountNotes("failure") > 0 =>
          pc \in {"finally", "done"}

\* a run returned after two files, one of them failed, with its summary
C20_Witness ==
    /\ Returned
    /\ workflow_results.successful_files = 1
    /\ workflow_results.failed_files = 1
    /\ notes = <<"detected", "summary">>

(***************************************************************************)
(* Properties of the files-detected notification and of the file loop.     *)
(***************************************************************************)
\* work has begun: the destination connection was attempted or opened, or
\* a file has been started or recorded
WorkBegun ==
    \/ dest # NoDest
    \/ pc \in {"loop", "in_file"}
    \/ ran # <<>>
    \/ workflow_results.files_processed # <<>>

\* C21: the files-detected notification is emitted if and only if the
\* filtered listing is non-empty, exactly once per run, before the first
\* step of the first file and before the destination connection is opened.
C21_DetectedOnceBeforeWork ==
    /\ CountNotes("detected") = IF files_to_process # <<>> THEN 1 ELSE 0
    /\ pc = "connect_sftp" => notes = <<"detected">> /\ dest = NoDest
    /\ WorkBegun => notes # <<>> /\ notes[1] = "detected"
    /\ Returned =>
          (CountNotes("detected") = 1) =
             (workflow_results.total_files > 0)

\* a file at its first step, the notification sent and the destination
\* connection open
C21_Witness ==
    /\ AtStep("Download")
    /\ idx = 1
    /\ notes = <<"detected">>
    /\ dest.bound

\* the poller of the current file is between two listing attempts
Suspended == poll.pc = "sleep"

\* the records of the files before the current one: in listing order, each
\* ended in success or with an error
EarlierFilesEnded ==
    LET done == workflow_results.files_processed
    IN  /\ Len(done) = idx - 1
        /\ \A i \in 1..Len(done) :
              /\ done[i].filename = files_to_process[i]
              /\ done[i].success # (done[i].error # NoError)

\* C22: files are processed one at a time in listing order: no step of
\* file i+1 starts before file i has ended in success or failure, and while
\* the poller is suspended for file i no other file's step executes.
C22_OneFileAtATime ==
    [][/\ ran' # ran /\ ran' # <<>> =>
             /\ pc = "in_file"
             /\ idx \in 1..Len(files_to_process)
             /\ sf.results.filename = files_to_process[idx]
             /\ EarlierFilesEnded
       /\ (pc = "loop" /\ pc' = "in_file") =>
             /\ sf'.results.filename = files_to_process[idx]
             /\ EarlierFilesEnded
       /\ Suspended =>
             /\ ran' = ran
             /\ sf' = sf
             /\ idx' = idx
             /\ workflow_results' = workflow_results
      ]_vars

\* the second file's poller suspended, the first file ended
C22_Witness ==
    /\ pc = "in_file"
    /\ idx = 2
    /\ Suspended
    /\ Len(workflow_results.files_processed) = 1

\* the path fields a record has set form a prefix of the step order
PathsFormPrefix(r) ==
    /\ r.appended_file # None => r.converted_file # None
    /\ r.converted_file # None => r.original_file # None

\* a per-file record is that of a success or that of a failure
RecordConsistent(r) ==
    IF r.success
    THEN /\ r.original_file # None
         /\ r.converted_file # None
         /\ r.appended_file # None
         /\ r.report_file # None
         /\ r.analysis
         /\ r.error = NoError
    ELSE /\ r.error # NoError
         /\ r.report_file = None
         /\ ~r.analysis
         /\ PathsFormPrefix(r)

\* C24: in every per-file record of a BatchRun, success = true implies
\* original_file, converted_file, appended_file, report_file and analysis
\* are set and error is unset; success = false implies error is set,
\* report_file and analysis are unset, and the path fields set form a
\* prefix of the step order.
C24_RecordsConsistent ==
    \A i \in 1..Len(workflow_results.files_processed) :
        RecordConsistent(workflow_results.files_processed[i])

\* a returned batch with a file that failed after its result was retrieved
\* and a file that succeeded
C24_Witness ==
    LET done == workflow_results.files_processed
    IN  /\ Returned
        /\ Len(done) = 2
        /\ ~done[1].success
        /\ done[1].appended_file # None
        /\ done[2].success

(***************************************************************************)
(* Properties of the poller's suspensions and of results left by earlier   *)
(* runs.                                                                   *)
(***************************************************************************)
\* C28 as stated: the poller suspends only between consecutive listing
\* attempts: a poll that times out after N attempts has suspended exactly
\* N - 1 times, and not after its final attempt.
C28_SuspendsBetweenAttemptsOnly ==
    /\ poll.pc = "timeout" => nSleep = nList - 1
    /\ Suspended => poll.attempts < poll.max_attempts

\* C28 amended: the poller suspends after every listing attempt that did
\* not return, the final one included: a poll that times out after N
\* attempts has suspended exactly N times, the last time after its final
\* attempt; a poll that returns on attempt k has suspended k - 1 times.
C28_SuspendsAfterEveryMiss ==
    /\ poll.pc = "timeout" =>
          /\ nSleep = nList
          /\ nList = poll.max_attempts
          /\ now = nList * config.check_interval
    /\ poll.pc = "returned" => nSleep = nList - 1
    /\ Suspended => nSleep = nList - 1 /\ poll.attempts = nList
    /\ poll.pc = "loop" => nSleep = nList

\* a poll timed out after four attempts none of which raised, two minutes
\* after it began
C28_Witness ==
    /\ poll.pc = "timeout"
    /\ nList = 4
    /\ nErr = 0
    /\ nSleep = 4
    /\ now = 2 * SecondsPerMinute

\* C29: the poller never returns a result file produced by a prior run's
\* submission of a same-named file: the entry it returns was written
\* during the current run, which begins at time 0.
C29_NeverReturnsPriorResult ==
    (AtStep("AwaitCompletion") /\ poll.pc = "returned") =>
        \E i \in 1..Len(lastListing.files) :
            /\ poll.ret = <<"downloads/">> \o lastListing.files[i].filename
            /\ \A j \in 1..(i - 1) :
                  ~Qualifying(lastListing.files[j], poll.base, now)
            /\ lastListing.files[i].st_mtime >= 0

(***************************************************************************)
(* Properties of the opening of connections.                               *)
(***************************************************************************)
\* a step of the current file runs in this step
StepRuns == pc = "in_file" /\ ran' # ran

\* C30: the destination connection is opened at most once per batch and
\* never reopened; the source connection is opened once at batch start and
\* otherwise only at the Deliver checkpoint after the poll, so a dead
\* source connection met at Download or Relocate fails that file without
\* any reconnect attempt.
C30_ConnectionsOpenedOnce ==
    [][/\ pc = "connect_sftp" => dest = NoDest
       /\ (dest' # dest /\ pc # "finally") => pc = "connect_sftp"
       /\ pc' = "connect_sftp" => pc \in {"list", "connect_sftp"}
       /\ pc = "connect_ftp" => nConn = 0
       /\ pc' = "connect_ftp" => pc = "connect_ftp"
       /\ CountOp(lastOps', "connect") > 0 =>
             /\ CountOp(lastOps', "connect") = 1
             /\ \/ pc \in {"connect_ftp", "connect_sftp"}
                \/ DeliverRuns /\ ran = SubSeq(StepOrder, 1, 6)
       /\ nConn' # nConn =>
             /\ nConn' = nConn + 1
             /\ CountOp(lastOps', "connect") = 1
             /\ pc = "connect_ftp" \/ DeliverRuns
       /\ (StepRuns /\ sf.pc \in {"Download", "Relocate"}
             /\ ~SrcOk(sf.ftp1)) =>
             /\ sf'.pc = "return"
             /\ sf'.results.error # NoError
             /\ sf'.ftp1 = sf.ftp1
             /\ conn' = conn
             /\ nConn' = nConn
      ]_vars

\* a file that failed at Relocate on a source connection that had dropped,
\* no second connection opened
C30_Witness ==
    /\ AtStep("return")
    /\ ran = <<"Download", "Relocate">>
    /\ sf.results.error # NoError
    /\ ~SrcOk(sf.ftp1)
    /\ nConn = 1
    /\ dest.bound

(***************************************************************************)
(* The workflow with its notification channels in any configuration: a     *)
(* source directory holding at most one file.                              *)
(***************************************************************************)
NotifyListings == {<<>>, << <<"b", ".", "csv">> >>}

NotifyInit ==
    /\ config \in [keyword : {None},
                   max_wait_minutes : {1},
                   check_interval : {30},
                   send_slack_notification : BOOLEAN,
                   slack_webhook_url : {None, <<"hook">>},
                   send_email_notification : BOOLEAN,
                   smtp_server : {None, <<"smtp">>}]
    /\ now = 0
    /\ srcDir \in NotifyListings
    /\ prevDir = <<>>
    /\ downloads = <<>>
    /\ pending = None
    /\ nConn = 0
    /\ conn = <<>>
    /\ dest = NoDest
    /\ pc = "connect_ftp"
    /\ ftp1 = 0
    /\ files_to_process = <<>>
    /\ idx = 1
    /\ workflow_results = NewWorkflowResults
    /\ sf = IdleFrame
    /\ poll = IdlePoll
    /\ ran = <<>>
    /\ nOk = 0
    /\ lastOps = <<>>
    /\ nList = 0
    /\ nSleep = 0
    /\ nErr = 0
    /\ lastListing = NoListing
    /\ notes = <<>>
    /\ delivered = NoDelivery
    /\ session = NoSession
    /\ summary = NoSummary
    /\ upload = NoUpload
    /\ mover = NoMover
    /\ an = NewAnalyzer
    /\ disk = "workflow"

NotifySpec == NotifyInit /\ [][Next]_vars

(***************************************************************************)
(* Properties of notification delivery.                                    *)
(***************************************************************************)
\* a send of the notification did not deliver it
DeliveryFailed(d) ==
    \/ d.slack \in {"unconfigured", "rejected", "error"}
    \/ d.email \in {"incomplete", "error"}

\* the latest notification emitted
LatestNote == notes[Len(notes)]

\* C23: a delivery failure inside send_email_notification or
\* send_slack_notification (SMTP error, HTTP error, non-200 response,
\* incomplete configuration) is logged and never raised to the caller, so
\* it never changes a FileTask's state or the BatchRun's success, error or
\* counts.
C23_DeliveryFailureNeverRaised ==
    [][notes' # notes =>
          /\ ~delivered'.raised
          /\ delivered'.slack \in SlackOutcomes(config)
          /\ delivered'.email \in EmailOutcomes(config)
          /\ sf' = sf
          /\ workflow_results'.files_processed =
                workflow_results.files_processed
          /\ workflow_results'.successful_files =
                workflow_results.successful_files
          /\ workflow_results'.failed_files = workflow_results.failed_files
          /\ workflow_results'.total_files = Len(files_to_process')
          /\ workflow_results'.success =
                (pc = "loop" /\ workflow_results.failed_files = 0)
          /\ workflow_results'.error # workflow_results.error =>
                /\ pc \in {"connect_ftp", "list", "connect_sftp"}
                /\ notes' = Append(notes, "failure")
      ]_vars

\* a run returned in success whose summary neither the webhook nor the
\* mail server accepted
C23_Witness ==
    /\ Returned
    /\ workflow_results.success
    /\ workflow_results.successful_files = 1
    /\ LatestNote = "summary"
    /\ delivered.slack = "rejected"
    /\ delivered.email = "error"

EnsureInit ==
    /\ config \in [keyword : {None},
                   max_wait_minutes : {1},
                   check_interval : {30},
                   send_slack_notification : {FALSE},
                   slack_webhook_url : {None},
                   send_email_notification : {FALSE},
                   smtp_server : {None}]
    /\ now = 0
    /\ srcDir = <<>>
    /\ prevDir = <<>>
    /\ downloads = <<>>
    /\ pending = None
    /\ nConn = 0
    /\ conn = <<>>
    /\ dest = NoDest
    /\ pc = "ensuring"
    /\ ftp1 = 0
    /\ files_to_process = <<>>
    /\ idx = 1
    /\ workflow_results = NewWorkflowResults
    /\ sf = IdleFrame
    /\ poll = IdlePoll
    /\ ran = <<>>
    /\ nOk = 0
    /\ lastOps = <<>>
    /\ nList = 0
    /\ nSleep = 0
    /\ nErr = 0
    /\ lastListing = NoListing
    /\ notes = <<>>
    /\ delivered = NoDelivery
    /\ \E there \in SUBSET {PreviousDir, FpnDestDir} :
          session = [NoSession EXCEPT !.dirs = @ \cup there]
    /\ summary = NoSummary
    /\ upload = NoUpload
    /\ mover = NoMover
    /\ an = NewAnalyzer
    /\ disk = "workflow"

ensureFrame == <<config, now, srcDir, prevDir, downloads, pending, nConn,
                 conn, dest, pc, ftp1, files_to_process, idx,
                 workflow_results, sf, poll, ran, nOk, lastOps, nList,
                 nSleep, nErr, lastListing, notes, delivered, summary,
                 upload, mover, an, disk>>

\* list_ftp_files: ftp.cwd(directory) with the source directory, which
\* succeeded (the batch goes on to its files)
SessionListed ==
    /\ session.step = "none"
    /\ session' = [session EXCEPT !.cwd = Entered(SourceFilename),
                                  !.step = "list"]
    /\ UNCHANGED ensureFrame

\* the connection drops while the batch runs
SessionDrops ==
    /\ session.step \in {"list", "Relocate"}
    /\ session.up
    /\ session' = [session EXCEPT !.up = FALSE]
    /\ UNCHANGED ensureFrame

\* Step 2: ensure_ftp_directory(ftp1, previous_dir); the move that follows
\* can succeed only on a connection that is up
EnsureAtRelocate ==
    /\ session.step = "list"
    /\ \E a \in EnsureAnswers(session, PreviousDir) :
          session' = [EnsureFtpDirectory(session, PreviousDir, a)
                          EXCEPT !.step = "Relocate",
                                 !.moved = session.up]
    /\ UNCHANGED ensureFrame

\* Step 7, the probe ftp1.pwd() answered: ensure_ftp_directory(ftp1,
\* fpn_dest_dir) on the connection the batch holds
EnsureAtDeliver ==
    /\ session.step = "Relocate"
    /\ session.moved
    /\ session.up
    /\ \E a \in EnsureAnswers(session, FpnDestDir) :
          session' = [EnsureFtpDirectory(session, FpnDestDir, a)
                          EXCEPT !.step = "Deliver"]
    /\ UNCHANGED ensureFrame

\* Step 7, the probe raised: connect_ftp opens a connection, which starts
\* in the login directory, and ensure_ftp_directory works on that one
EnsureAfterReconnect ==
    /\ session.step = "Relocate"
    /\ session.moved
    /\ ~session.up
    /\ LET fresh == [session EXCEPT !.up = TRUE, !.cwd = LoginDir,
                                    !.reconnected = TRUE,
                                    !.held_cwd = session.cwd]
       IN  \E a \in EnsureAnswers(fresh, FpnDestDir) :
              session' = [EnsureFtpDirectory(fresh, FpnDestDir, a)
                              EXCEPT !.step = "Deliver"]
    /\ UNCHANGED ensureFrame

\* the loop of process_workflow passes its own ftp1 to the next file: after
\* a reconnect that is the connection process_single_file has quit
SessionNextFile ==
    /\ session.step \in {"Relocate", "Deliver"}
    /\ session.file < MaxFiles
    /\ session' = IF session.reconnected
                  THEN [session EXCEPT !.up = FALSE,
                                       !.cwd = session.held_cwd,
                                       !.reconnected = FALSE,
                                       !.step = "list", !.file = @ + 1]
                  ELSE [session EXCEPT !.step = "list", !.file = @ + 1]
    /\ UNCHANGED ensureFrame

EnsureNext ==
    \/ SessionListed
    \/ SessionNextFile
    \/ SessionDrops
    \/ EnsureAtRelocate
    \/ EnsureAtDeliver
    \/ EnsureAfterReconnect

EnsureSpec == EnsureInit /\ [][EnsureNext]_vars

\* ensure_ftp_directory has been called and has returned
EnsureCalled == session.step \in {"Relocate", "Deliver"} /\ session.cmds # <<>>

MkdAttempted(s) == \E i \in 1..Len(s.cmds) : s.cmds[i].cmd = "mkd"

MkdFailed(s) == \E i \in 1..Len(s.cmds) :
                    s.cmds[i].cmd = "mkd" /\ ~s.cmds[i].ok

\* the first command of a call is the cwd into the directory
ChangeIntoFailed(s) == ~s.cmds[1].ok

\* C26: ensure_ftp_directory never propagates an error; it attempts to
\* create the directory if and only if the attempt to change into it
\* failed; a failed create attempt is logged and the caller goes on.
C26_CreatesIffChangeFailed ==
    EnsureCalled =>
        /\ ~session.raised
        /\ (MkdAttempted(session) <=> ChangeIntoFailed(session))
        /\ MkdFailed(session) => session.warned

\* C27: after every call of ensure_ftp_directory the connection's working
\* directory is what it was immediately before the call, whatever the
\* outcome, at the Relocate step and at the Deliver step after a reconnect.
C27_WorkingDirectoryRestored ==
    EnsureCalled => session.cwd = session.before

(***************************************************************************)
(* list_ftp_files with keywords and names of either case.                  *)
(***************************************************************************)
ListOrders ==
    {<< <<"b", ".", "csv">>, <<"email", ".", "csv">>,
        <<"q", "Email", ".", "txt">>, <<"q", "email", ".", "csv">> >>,
     << <<"q", "Email", ".", "txt">>, <<"email", ".", "csv">>,
        <<"b", ".", "csv">>, <<"q", "email", ".", "csv">> >>}

\* what ftp.nlst() returns: at most MaxFiles names
ListListings == {SubSeq(o, 1, k) : o \in ListOrders, k \in 0..MaxFiles}

\* the keyword of the configuration: absent, or a word in either case
ListKeywords == {None, <<"email">>, <<"Email">>, <<"q">>, <<"q", "Email">>,
                 <<"csv">>}

ListInit ==
    /\ config \in [keyword : ListKeywords,
                   max_wait_minutes : {1},
                   check_interval : {30},
                   send_slack_notification : {FALSE},
                   slack_webhook_url : {None},
                   send_email_notification : {FALSE},
                   smtp_server : {None}]
    /\ now = 0
    /\ srcDir \in ListListings
    /\ prevDir = <<>>
    /\ downloads = <<>>
    /\ pending = None
    /\ nConn = 0
    /\ conn = <<>>
    /\ dest = NoDest
    /\ pc = "connect_ftp"
    /\ ftp1 = 0
    /\ files_to_process = <<>>
    /\ idx = 1
    /\ workflow_results = NewWorkflowResults
    /\ sf = IdleFrame
    /\ poll = IdlePoll
    /\ ran = <<>>
    /\ nOk = 0
    /\ lastOps = <<>>
    /\ nList = 0
    /\ nSleep = 0
    /\ nErr = 0
    /\ lastListing = NoListing
    /\ notes = <<>>
    /\ delivered = NoDelivery
    /\ session = NoSession
    /\ summary = NoSummary
    /\ upload = NoUpload
    /\ mover = NoMover
    /\ an = NewAnalyzer
    /\ disk = "workflow"

ListNext == ConnectFtp \/ ListFiles

ListSpec == ListInit /\ [][ListNext]_vars

\* list_ftp_files has returned its list
ListReturned ==
    /\ pc \in {"connect_sftp", "finally"}
    /\ ftp1 # 0
    /\ workflow_results.error = NoError

\* sub occurs in name when letters are compared without regard to case
OccursIgnoringCase(name, sub) ==
    \E i \in 0..(Len(name) - Len(sub)) :
        \A j \in 1..Len(sub) : LowerTok(name[i + j]) = LowerTok(sub[j])

\* the name is to be returned under the keyword
Wanted(name, keyword) == keyword = <<>> \/ OccursIgnoringCase(name, keyword)

\* the positions of the listing whose names are wanted
WantedAt(listing, keyword) ==
    {i \in 1..Len(listing) : Wanted(listing[i], keyword)}

\* C31: list_ftp_files returns, in listing order, exactly the names that
\* contain the keyword as a case-insensitive substring; with an empty or
\* absent keyword it returns every listed name unchanged.
C31_ListingFilteredInOrder ==
    ListReturned =>
        LET at == WantedAt(srcDir, config.keyword)
        IN  /\ Len(files_to_process) = Cardinality(at)
            /\ \A k \in 1..Len(files_to_process) :
                  \E i \in at :
                      /\ files_to_process[k] = srcDir[i]
                      /\ Cardinality({j \in at : j < i}) = k - 1
            /\ config.keyword = <<>> => files_to_process = srcDir

\* a keyword in capitals kept a name in small letters, behind a name that
\* was dropped
C31_Witness ==
    /\ ListReturned
    /\ config.keyword = <<"Email">>
    /\ Len(files_to_process) < Len(srcDir)
    /\ files_to_process = << <<"email", ".", "csv">> >>

(***************************************************************************)
(* The terminal summary over batches of files that succeeded or failed.    *)
(***************************************************************************)
\* what process_single_file can return: on success the analysis with its
\* count of new emails, on failure the text of the error and no analysis
FileResults ==
    [filename : {<<"a", ".", "csv">>, <<"b", ".", "csv">>},
     success : {TRUE}, error : {NoError},
     analysis : [present : {TRUE}, new_emails_count : 0..MaxRows]]
    \cup
    [filename : {<<"a", ".", "csv">>, <<"b", ".", "csv">>},
     success : {FALSE}, error : {"timeout", "refused"},
     analysis : [present : {FALSE}, new_emails_count : {0}]]

\* the for loop of process_workflow over the first n results
RECURSIVE Tallied(_, _)
Tallied(results, n) ==
    IF n = 0
    THEN [NewWorkflowResults EXCEPT !.total_files = Len(results)]
    ELSE Tally(Tallied(results, n - 1), results[n])

SummaryInit ==
    /\ config \in [keyword : {None},
                   max_wait_minutes : {1},
                   check_interval : {30},
                   send_slack_notification : {FALSE},
                   slack_webhook_url : {None},
                   send_email_notification : {FALSE},
                   smtp_server : {None}]
    /\ now = 0
    /\ srcDir = <<>>
    /\ prevDir = <<>>
    /\ downloads = <<>>
    /\ pending = None
    /\ nConn = 0
    /\ conn = <<>>
    /\ dest = NoDest
    /\ pc = "summarizing"
    /\ ftp1 = 0
    /\ files_to_process = <<>>
    /\ idx = 1
    /\ \E results \in Seqs(FileResults, MaxFiles) :
          LET w == Tallied(results, Len(results))
          IN  workflow_results =
                  [w EXCEPT !.success = (w.failed_files = 0)]
    /\ sf = IdleFrame
    /\ poll = IdlePoll
    /\ ran = <<>>
    /\ nOk = 0
    /\ lastOps = <<>>
    /\ nList = 0
    /\ nSleep = 0
    /\ nErr = 0
    /\ lastListing = NoListing
    /\ notes = <<>>
    /\ delivered = NoDelivery
    /\ session = NoSession
    /\ summary = NoSummary
    /\ upload = NoUpload
    /\ mover = NoMover
    /\ an = NewAnalyzer
    /\ disk = "workflow"

\* the call _send_workflow_notifications(workflow_results)
SendWorkflowNotifications ==
    /\ pc = "summarizing"
    /\ pc' = "finally"
    /\ summary' = WorkflowSummary(workflow_results)
    /\ notes' = SummaryNotes(workflow_results, notes)
    /\ UNCHANGED <<config, now, srcDir, prevDir, downloads, pending, nConn,
                   conn, dest, ftp1, files_to_process, idx, workflow_results,
                   sf, poll, ran, nOk, lastOps, nList, nSleep, nErr,
                   lastListing, delivered, session, upload, mover, an, disk>>

SummaryNext == SendWorkflowNotifications

SummarySpec == SummaryInit /\ [][SummaryNext]_vars

\* the positions of the batch's files that succeeded, that failed
SucceededAt == {i \in 1..Len(workflow_results.files_processed) :
                   workflow_results.files_processed[i].success}
FailedAt == {i \in 1..Len(workflow_results.files_processed) :
                ~workflow_results.files_processed[i].success}

\* the new emails of the files at the positions S, added up
RECURSIVE NewEmailsAt(_)
NewEmailsAt(S) ==
    IF S = {} THEN 0
    ELSE LET i == CHOOSE j \in S : TRUE
         IN  workflow_results.files_processed[i].analysis.new_emails_count
               + NewEmailsAt(S \ {i})

\* C32: the summary's status is SUCCESS exactly when failed = 0, PARTIAL
\* SUCCESS exactly when failed > 0 and successful > 0, FAILED exactly when
\* failed > 0 and successful = 0; its total of new emails is the sum over
\* the successful files only; each failed file is listed with its error.
C32_SummaryStatusAndTotals ==
    summary.sent =>
        LET failed == Cardinality(FailedAt)
            successful == Cardinality(SucceededAt)
        IN  /\ summary.failed = failed
            /\ summary.successful = successful
            /\ (summary.status = "SUCCESS") <=> (failed = 0)
            /\ (summary.status = "PARTIAL SUCCESS") <=>
                   (failed > 0 /\ successful > 0)
            /\ (summary.status = "FAILED") <=>
                   (failed > 0 /\ successful = 0)
            /\ summary.total_new_emails = NewEmailsAt(SucceededAt)
            /\ Len(summary.failures) = failed
            /\ \A i \in FailedAt :
                  LET r == workflow_results.files_processed[i]
                      k == Cardinality({j \in FailedAt : j <= i})
                  IN  summary.failures[k] =
                          [filename |-> r.filename, error |-> r.error]

\* a batch of one file that brought new emails and one that failed
C32_Witness ==
    /\ summary.sent
    /\ summary.status = "PARTIAL SUCCESS"
    /\ summary.total_new_emails > 0
    /\ Len(summary.failures) = 1
    /\ summary.failures[1].error = "timeout"

(***************************************************************************)
(* Results of the other files of the batch.                                *)
(***************************************************************************)
\* the other files of the batch whose normalized base name contains the
\* base name the poller is looking for
Lookalikes ==
    {i \in 1..Len(files_to_process) :
        /\ files_to_process[i] # sf.results.filename
        /\ Contains(NormalizedBase(UploadName(files_to_process[i])),
                    poll.base)}

\* C33: within one batch the poller returns for a file a result of that
\* file's own submission, never the result of another file of the batch
\* whose normalized base name contains this file's normalized base name.
C33_NeverReturnsAnotherFilesResult ==
    (AtStep("AwaitCompletion") /\ poll.pc = "returned") =>
        \A i \in Lookalikes :
            poll.ret # <<"downloads/">>
                         \o ResultName(UploadName(files_to_process[i]))

(***************************************************************************)
(* Where the files of a batch are when the run ends.                       *)
(***************************************************************************)
Listing(names, filename) == \E i \in 1..Len(names) : names[i] = filename

\* the steps of the current file that completed include Relocate
RelocateCompleted == nOk >= 2

\* process_single_file is about to return
FileEnded == pc = "in_file" /\ sf.pc = "return"

\* the names of the files the loop has already accounted for
Accounted ==
    {workflow_results.files_processed[i].filename :
        i \in 1..Len(workflow_results.files_processed)}

\* C34: every file that completed Relocate is in the archival directory and
\* absent from the source directory even when a later step failed, a file
\* that failed at Download or at Relocate is still in the source directory,
\* and so it stays until the run ends.
C34_RelocatedFilesStayArchived ==
    [][/\ FileEnded' =>
            IF RelocateCompleted'
            THEN /\ Listing(prevDir', sf'.results.filename)
                 /\ ~Listing(srcDir', sf'.results.filename)
            ELSE Listing(srcDir', sf'.results.filename)
       /\ \A f \in Accounted :
            /\ Listing(prevDir, f) <=> Listing(prevDir', f)
            /\ Listing(srcDir, f) <=> Listing(srcDir', f)]_vars

\* the run ended with a file that failed after it was moved and a file
\* that failed before
C34_Witness ==
    /\ pc = "done"
    /\ workflow_results.failed_files = 2
    /\ \E f \in Accounted : Listing(prevDir, f) /\ ~Listing(srcDir, f)
    /\ \E f \in Accounted : Listing(srcDir, f) /\ ~Listing(prevDir, f)

(***************************************************************************)
(* Termination.  The program is sequential: a step that can be taken is    *)
(* taken, every endpoint call returning or raising.  The service and the   *)
(* network owe nothing.                                                    *)
(***************************************************************************)
Program ==
    \/ ConnectFtp
    \/ ListFiles
    \/ ConnectSftp
    \/ StartFile
    \/ Download
    \/ Relocate
    \/ Convert
    \/ Submit
    \/ AwaitCall
    \/ PollAttempt
    \/ PollSleep
    \/ PollTimeout
    \/ AwaitReturn
    \/ Retrieve
    \/ Deliver
    \/ Analyze
    \/ Report
    \/ FileReturn
    \/ Summary
    \/ Finally

\* runs over listings of one server order, with no keyword and nothing in
\* downloads/ beforehand
LiveListings ==
    {SubSeq(<< <<"q", "email", ".", "csv">>, <<"email", ".", "csv">>,
               <<"b", ".", "csv">>, <<"q", "Email", ".", "txt">> >>, 1, k) :
        k \in 0..MaxFiles}

LiveInit ==
    /\ Init
    /\ config.keyword = None
    /\ srcDir \in LiveListings
    /\ downloads = <<>>

LiveSpec == LiveInit /\ [][Next]_vars /\ WF_vars(Program)

\* C35: process_workflow always terminates and returns its BatchRun, for
\* any listing and any pattern of endpoint failures: every poll ends after
\* a bounded number of attempts.
C35_WorkflowTerminates == <>(pc = "done")

\* the run returned after the poll of its last file ran out of attempts
C35_Witness ==
    /\ pc = "done"
    /\ workflow_results.failed_files > 0
    /\ ran # <<>>
    /\ ran[Len(ran)] = "AwaitCompletion"

(***************************************************************************)
(* The BatchRun that process_workflow returns.                             *)
(***************************************************************************)
\* a connect or the listing raised into the except clause of the run
FatalErrorOccurred == \E i \in 1..Len(notes) : notes[i] = "failure"

\* C36: the returned BatchRun's success flag is true if and only if no
\* batch-level fatal error occurred and failed_files = 0 (an empty listing
\* gives success with total_files = 0), and its error field is set if and
\* only if a batch-level fatal error occurred.
C36_SuccessAndErrorFlags ==
    pc = "done" =>
        /\ workflow_results.success <=>
              (~FatalErrorOccurred /\ workflow_results.failed_files = 0)
        /\ (workflow_results.error # NoError) <=> FatalErrorOccurred
        /\ (~FatalErrorOccurred /\ files_to_process = <<>>) =>
              (workflow_results.success /\ workflow_results.total_files = 0)

\* a run without a fatal error in which a file failed
C36_Witness ==
    /\ pc = "done"
    /\ ~FatalErrorOccurred
    /\ workflow_results.failed_files > 0
    /\ workflow_results.successful_files > 0
    /\ ~workflow_results.success

(***************************************************************************)
(* The time the poller spends in time.sleep.                               *)
(***************************************************************************)
\* seconds slept by the current poll: every sleep lasts check_interval
SecondsSuspended == nSleep * config.check_interval

\* C37: the total time the poller spends suspended before it raises
\* TimeoutError never exceeds max_wait_minutes * 60 seconds, whatever the
\* two settings; with check_interval above the whole budget no attempt is
\* made and no time is slept.
C37_SuspensionWithinBudget ==
    poll.pc = "timeout" =>
        /\ SecondsSuspended <= config.max_wait_minutes * SecondsPerMinute
        /\ now <= config.max_wait_minutes * SecondsPerMinute
        /\ config.check_interval > config.max_wait_minutes * SecondsPerMinute
              => (nList = 0 /\ nSleep = 0)

\* a timeout after sleeps that do not fill the budget evenly
C37_Witness ==
    /\ poll.pc = "timeout"
    /\ nSleep > 0
    /\ SecondsSuspended < config.max_wait_minutes * SecondsPerMinute

(***************************************************************************)
(* Runs of upload_result against a server that has the destination         *)
(* directory or not, and that may refuse any command.                      *)
(***************************************************************************)
MaxRuns == 3

UploadInit ==
    /\ config \in [keyword : {None},
                   max_wait_minutes : {1},
                   check_interval : {30},
                   send_slack_notification : {FALSE},
                   slack_webhook_url : {None},
                   send_email_notification : {FALSE},
                   smtp_server : {None}]
    /\ now = 0
    /\ srcDir = <<>>
    /\ prevDir = <<>>
    /\ downloads = <<>>
    /\ pending = None
    /\ nConn = 0
    /\ conn = <<>>
    /\ dest = NoDest
    /\ pc = "script"
    /\ ftp1 = 0
    /\ files_to_process = <<>>
    /\ idx = 1
    /\ workflow_results = NewWorkflowResults
    /\ sf = IdleFrame
    /\ poll = IdlePoll
    /\ ran = <<>>
    /\ nOk = 0
    /\ lastOps = <<>>
    /\ nList = 0
    /\ nSleep = 0
    /\ nErr = 0
    /\ lastListing = NoListing
    /\ notes = <<>>
    /\ delivered = NoDelivery
    /\ session = NoSession
    /\ summary = NoSummary
    /\ \E local \in BOOLEAN, there \in SUBSET {UploadDestDir} :
          upload = [NoUpload EXCEPT !.local = local, !.dirs = @ \cup there]
    /\ mover = NoMover
    /\ an = NewAnalyzer
    /\ disk = "workflow"

scriptFrame == <<config, now, srcDir, prevDir, downloads, pending, nConn,
                 conn, dest, pc, ftp1, files_to_process, idx,
                 workflow_results, sf, poll, ran, nOk, lastOps, nList,
                 nSleep, nErr, lastListing, notes, delivered, session,
                 summary, an, disk>>

\* python upload_result_to_fpn.py
UploadRun ==
    /\ upload.runs < MaxRuns
    /\ \E a \in UploadAnswers(upload) : upload' = UploadResult(upload, a)
    /\ UNCHANGED <<scriptFrame, mover>>

\* the result file is written to downloads/, or cleared away, between runs
LocalFileChanges ==
    /\ upload.runs < MaxRuns
    /\ upload' = [upload EXCEPT !.local = ~@]
    /\ UNCHANGED <<scriptFrame, mover>>

UploadNext == UploadRun \/ LocalFileChanges

UploadSpec == UploadInit /\ [][UploadNext]_vars

\* C38: whenever upload_result reports success and prints the result as
\* available at <dest_dir>/<filename>, the file was stored in dest_dir,
\* whether dest_dir existed, was just created, or could neither be
\* entered nor created.
C38_ReportedWhereStored ==
    upload.success =>
        /\ upload.available_at =
              UploadDestDir \o <<"/">> \o PathName(UploadLocalFile)
        /\ upload.stored_in = UploadDestDir
        /\ UploadDestDir \in upload.files

(***************************************************************************)
(* Runs of move_file_back over archival directories of up to MaxFiles      *)
(* names.                                                                  *)
(***************************************************************************)
MoverNames ==
    {<<"b", ".", "csv">>, <<"c", ".", "txt">>, <<"email", ".", "csv">>,
     <<"q", "Email", ".", "txt">>}

\* what ftp.nlst() of the archival directory can return: names that differ
MoverListings ==
    {l \in Seqs(MoverNames, MaxFiles) :
        \A i, j \in 1..Len(l) : i # j => l[i] # l[j]}

MoverInit ==
    /\ config \in [keyword : {None},
                   max_wait_minutes : {1},
                   check_interval : {30},
                   send_slack_notification : {FALSE},
                   slack_webhook_url : {None},
                   send_email_notification : {FALSE},
                   smtp_server : {None}]
    /\ now = 0
    /\ srcDir = <<>>
    /\ prevDir = <<>>
    /\ downloads = <<>>
    /\ pending = None
    /\ nConn = 0
    /\ conn = <<>>
    /\ dest = NoDest
    /\ pc = "script"
    /\ ftp1 = 0
    /\ files_to_process = <<>>
    /\ idx = 1
    /\ workflow_results = NewWorkflowResults
    /\ sf = IdleFrame
    /\ poll = IdlePoll
    /\ ran = <<>>
    /\ nOk = 0
    /\ lastOps = <<>>
    /\ nList = 0
    /\ nSleep = 0
    /\ nErr = 0
    /\ lastListing = NoListing
    /\ notes = <<>>
    /\ delivered = NoDelivery
    /\ session = NoSession
    /\ summary = NoSummary
    /\ upload = NoUpload
    /\ \E l \in MoverListings : mover = [NoMover EXCEPT !.previous = l]
    /\ an = NewAnalyzer
    /\ disk = "workflow"

\* python move_file_back.py
MoverRun ==
    /\ mover.runs < MaxRuns
    /\ \E a \in MoverAnswers : mover' = MoveFileBack(mover, a)
    /\ UNCHANGED <<scriptFrame, upload>>

MoverNext == MoverRun

MoverSpec == MoverInit /\ [][MoverNext]_vars

\* the position of the file the claim names: the first listed name with
\* 'email' in it in any case, else the first listed name
ClaimedPosition(files) ==
    LET emails == {i \in 1..Len(files) :
                      OccursIgnoringCase(files[i], <<"email">>)}
    IN  IF emails = {} THEN 1
        ELSE CHOOSE i \in emails : \A j \in emails : i <= j

\* the names of a directory
NamesOf(dir) == {dir[i] : i \in 1..Len(dir)}

\* C39: move_file_back moves at most one file per invocation from the
\* archival directory to the source directory: the first listed name
\* containing 'email' case-insensitively if there is one, otherwise the
\* first listed name; with an empty listing it moves nothing and closes
\* the connection.
C39_MovesOneChosenFile ==
    mover.runs > 0 =>
        /\ mover.outcome = "moved" =>
              LET f == mover.listed[ClaimedPosition(mover.listed)]
              IN  /\ mover.renamed = f
                  /\ NamesOf(mover.previous) =
                        NamesOf(mover.was_previous) \ {f}
                  /\ NamesOf(mover.source) =
                        NamesOf(mover.was_source) \cup {f}
        /\ mover.outcome # "moved" =>
              /\ mover.previous = mover.was_previous
              /\ mover.source = mover.was_source
        /\ mover.outcome = "no_files" =>
              /\ mover.was_previous = <<>>
              /\ mover.quit
        /\ (mover.was_previous = <<>>
              /\ mover.outcome \notin {"connect_error", "list_error"})
              => mover.outcome = "no_files"

\* a run moved the second listed file, whose name has 'Email' in capitals
C39_Witness ==
    /\ mover.outcome = "moved"
    /\ Len(mover.listed) = 2
    /\ mover.renamed = mover.listed[2]
    /\ mover.renamed = <<"q", "Email", ".", "txt">>

====
